---- MODULE Spec2Model ----
(***************************************************************************)
(* Verification model of the wink agent orchestration engine:              *)
(*   - the approval engine (internal/tools/approval.go,                    *)
(*     internal/config/approval.go, internal/ui/prompt.go),                *)
(*   - the agent loop (internal/agent/agent.go, context.go, session.go),   *)
(*   - the path guard and registry (internal/tools/security.go, file.go,   *)
(*     directory.go, search.go).                                           *)
(* Strings are sequences of one-character strings, so that serialization,  *)
(* escaping and regular-expression matching are computed, not assumed.     *)
(***************************************************************************)
EXTENDS Integers, Sequences, FiniteSets, TLC

\* ------------------------------------------------------------------------
\* Bounds of the model
\* ------------------------------------------------------------------------
\* CheckApproval calls made directly on the approval engine
MaxChecks == 2
\* AddRule calls made directly on the rule store
MaxManual == 1
\* length of the rule list
MaxRules == 2
\* failed writes of the config file and the session file
MaxWriteFailures == 1
\* tool calls the model proposes in one run
MaxCalls == 2
\* tool calls the model proposes in one turn
MaxTurnCalls == 2
\* Registry.Execute calls made directly on the registry
MaxExecs == 2
\* messages appended to one session by direct calls of AddMessage
MaxAppends == 103
\* invocations of Run after the first
MaxRuns == 2
\* the largest MaxRetries of the retry configurations tried
MaxConfigRetries == 3
\* calls of the terminal tools the model proposes in one run
MaxTerminalCalls == 3
\* AddCommand calls of one goroutine, and GetLast calls of one goroutine
MaxHistoryCalls == 2
\* tool calls the model proposes in one long turn
MaxLongTurnCalls == 11
\* calls of Start, Stop and Update on one ProgressIndicator
MaxProgressCalls == 4
\* frames the spinner draws
MaxFrames == 3

\* ------------------------------------------------------------------------
\* Strings
\* ------------------------------------------------------------------------
BS == "\\"
QT == "\""

RECURSIVE Concat(_)
\* concatenation of a sequence of strings
Concat(ss) == IF ss = << >> THEN << >> ELSE Head(ss) \o Concat(Tail(ss))

\* strings.HasPrefix
HasPrefix(s, p) == Len(p) <= Len(s) /\ SubSeq(s, 1, Len(p)) = p

\* s contains sub as a contiguous substring
ContainsStr(s, sub) ==
    \E i \in 0..(Len(s) - Len(sub)) : SubSeq(s, i + 1, i + Len(sub)) = sub

\* ------------------------------------------------------------------------
\* Parameter maps and their canonical JSON (encoding/json.Marshal of a
\* map[string]interface{}): keys in sorted order, strings quoted with
\* '"' and '\' escaped.  A value is a Go string ("str") or any other JSON
\* value given by its canonical serialization ("raw").
\* ------------------------------------------------------------------------
Str(cs) == [t |-> "str", v |-> cs]
Raw(cs) == [t |-> "raw", v |-> cs]

\* the characters of the parameter names
KeyChars ==
    [ base_path |-> <<"b","a","s","e","_","p","a","t","h">>,
      command   |-> <<"c","o","m","m","a","n","d">>,
      content   |-> <<"c","o","n","t","e","n","t">>,
      extra     |-> <<"e","x","t","r","a">>,
      new_string |-> <<"n","e","w","_","s","t","r","i","n","g">>,
      old_string |-> <<"o","l","d","_","s","t","r","i","n","g">>,
      path      |-> <<"p","a","t","h">>,
      pattern   |-> <<"p","a","t","t","e","r","n">>,
      timeout_seconds |-> <<"t","i","m","e","o","u","t","_","s","e","c","o","n","d","s">> ]

\* the parameter names in the byte order json.Marshal sorts map keys by
KeyOrder ==
    <<"base_path", "command", "content", "extra", "new_string", "old_string", "path",
      "pattern", "timeout_seconds">>

RECURSIVE JSONEscape(_)
\* the body of a JSON string literal
JSONEscape(cs) ==
    IF cs = << >> THEN << >>
    ELSE LET c == Head(cs)
         IN (IF c = QT \/ c = BS THEN <<BS, c>> ELSE <<c>>) \o JSONEscape(Tail(cs))

JSONString(cs) == <<QT>> \o JSONEscape(cs) \o <<QT>>

JSONValue(val) == IF val.t = "str" THEN JSONString(val.v) ELSE val.v

RECURSIVE JSONMembers(_, _, _)
JSONMembers(params, keys, first) ==
    IF keys = << >> THEN << >>
    ELSE LET k == Head(keys)
         IN IF k \in DOMAIN params
            THEN (IF first THEN << >> ELSE <<",">>)
                    \o JSONString(KeyChars[k]) \o <<":">> \o JSONValue(params[k])
                    \o JSONMembers(params, Tail(keys), FALSE)
            ELSE JSONMembers(params, Tail(keys), first)

\* json.Marshal(params)
MarshalParams(params) == <<"{">> \o JSONMembers(params, KeyOrder, TRUE) \o <<"}">>

\* ------------------------------------------------------------------------
\* escapeRegex / replaceAll (internal/tools/approval.go)
\* ------------------------------------------------------------------------
\* The keys of the replacements map that occur in the strings of the model.
\* The map has ten more keys (* + ? ^ $ [ ] ( ) |); replaceAll is the
\* identity on a string that does not contain its key, so they are left out.
ReplacementKeys == {BS, ".", "{", "}"}

\* replacements[old]
Replacement(old) == <<BS, old>>

RECURSIVE replaceAll(_, _, _)
\* replaceAll(s, old, new) for a one-character old
replaceAll(s, old, new) ==
    IF s = << >> THEN << >>
    ELSE (IF Head(s) = old THEN new ELSE <<Head(s)>>) \o replaceAll(Tail(s), old, new)

\* The orders in which "for old, new := range replacements" can visit the
\* keys: Go leaves the iteration order of a map unspecified.
RangeOrders ==
    { o \in [1..Cardinality(ReplacementKeys) -> ReplacementKeys] :
        \A i, j \in DOMAIN o : i # j => o[i] # o[j] }

RECURSIVE escapeRegexFrom(_, _, _)
escapeRegexFrom(result, order, i) ==
    IF i > Len(order) THEN result
    ELSE escapeRegexFrom(replaceAll(result, order[i], Replacement(order[i])), order, i + 1)

\* escapeRegex(s) when the range statement visits the keys in order
escapeRegex(s, order) == escapeRegexFrom(s, order, 1)

\* ------------------------------------------------------------------------
\* Regular expressions (regexp.Compile / regexp.MatchString) for the
\* patterns of the model: escaped characters, '.', and literal characters.
\* A '{' or '}' that does not start a repetition {n,m} is a literal in Go's
\* syntax; the strings of the model contain no digits.
\* ------------------------------------------------------------------------
RECURSIVE RegexTokens(_)
\* the pattern as a sequence of one-character matchers, or <<"error">> inside
RegexTokens(p) ==
    IF p = << >> THEN << >>
    ELSE IF Head(p) = BS
         THEN IF Len(p) = 1
              THEN << [k |-> "error", c |-> BS] >>      \* trailing backslash
              ELSE << [k |-> "lit", c |-> p[2]] >> \o RegexTokens(SubSeq(p, 3, Len(p)))
         ELSE IF Head(p) = "."
              THEN << [k |-> "any", c |-> "."] >> \o RegexTokens(Tail(p))
              ELSE << [k |-> "lit", c |-> Head(p)] >> \o RegexTokens(Tail(p))

\* no token is an error
TokensCompile(toks) == \A i \in DOMAIN toks : toks[i].k # "error"

\* regexp.Compile(p) returns no error
RegexCompiles(p) == TokensCompile(RegexTokens(p))

TokenMatches(tok, c) == tok.k = "any" \/ (tok.k = "lit" /\ tok.c = c)

\* the tokens match some substring of s
TokensMatchString(toks, s) ==
    /\ TokensCompile(toks)
    /\ \E i \in 0..(Len(s) - Len(toks)) :
          \A j \in 1..Len(toks) : TokenMatches(toks[j], s[i + j])

\* regexp.MatchString(p, s): true iff p matches some substring of s
\* (a pattern without ^ and $ is not anchored)
RegexMatchString(p, s) == TokensMatchString(RegexTokens(p), s)

\* ------------------------------------------------------------------------
\* Rule store (internal/config/approval.go)
\* ------------------------------------------------------------------------
\* ApprovalManager.Save: the config document is rewritten with the rules in
\* memory; wr is whether os.WriteFile succeeds.
SaveRules(rs, disk, wr) == IF wr THEN rs ELSE disk

\* ApprovalManager.Load (NewApprovalManager): the rules of the config file
LoadRules(disk) == disk

\* AddRule from the append on: added is a.rules with the new rule
AddRuleAppended(added, disk, wr) ==
    [err   |-> IF wr THEN "" ELSE "failed to write config file",
     rules |-> added,
     disk  |-> SaveRules(added, disk, wr),
     wrote |-> TRUE]

\* ApprovalManager.AddRule
AddRule(rs, disk, toolName, paramPattern, description, wr) ==
    IF ~RegexCompiles(paramPattern)
    THEN [err |-> "invalid regex pattern", rules |-> rs, disk |-> disk, wrote |-> FALSE]
    ELSE AddRuleAppended(Append(rs, [ToolName |-> toolName, ParamPattern |-> paramPattern,
                                     Description |-> description, UseCount |-> 0]),
                         disk, wr)

RECURSIVE MatchRuleAnyTool(_, _, _, _)
\* MatchRule without the comparison of the tool name
MatchRuleAnyTool(rs, toolName, paramsStr, i) ==
    IF i > Len(rs) THEN 0
    ELSE IF RegexMatchString(rs[i].ParamPattern, paramsStr)
         THEN i
         ELSE MatchRuleAnyTool(rs, toolName, paramsStr, i + 1)

\* the later match if there is one, else rule i if it matches
LaterOrThis(rs, toolName, paramsStr, i, later) ==
    IF later # 0 THEN later
    ELSE IF rs[i].ToolName = toolName /\ RegexMatchString(rs[i].ParamPattern, paramsStr)
         THEN i ELSE 0

RECURSIVE MatchRuleLastWins(_, _, _, _)
\* MatchRule that keeps scanning after a match and returns the last one
MatchRuleLastWins(rs, toolName, paramsStr, i) ==
    IF i > Len(rs) THEN 0
    ELSE LaterOrThis(rs, toolName, paramsStr, i,
                     MatchRuleLastWins(rs, toolName, paramsStr, i + 1))

RECURSIVE MatchRuleFrom(_, _, _, _)
\* the loop of MatchRule from rule i on: the index of the rule returned, 0 for nil
MatchRuleFrom(rs, toolName, paramsStr, i) ==
    IF i > Len(rs) THEN 0
    ELSE IF rs[i].ToolName # toolName
         THEN MatchRuleFrom(rs, toolName, paramsStr, i + 1)
         ELSE IF ~RegexCompiles(rs[i].ParamPattern)
              THEN MatchRuleFrom(rs, toolName, paramsStr, i + 1)
              ELSE IF RegexMatchString(rs[i].ParamPattern, paramsStr)
                   THEN i
                   ELSE MatchRuleFrom(rs, toolName, paramsStr, i + 1)

\* MatchRule from the update of the matched rule on
MatchRuleUsed(i, used, disk, wr) ==
    [rule |-> i, rules |-> used, disk |-> SaveRules(used, disk, wr), wrote |-> TRUE]

\* MatchRule once the loop has ended at rule i (0: no rule matched)
MatchRuleAt(rs, disk, i, wr) ==
    IF i = 0
    THEN [rule |-> 0, rules |-> rs, disk |-> disk, wrote |-> FALSE]
    ELSE MatchRuleUsed(i, [rs EXCEPT ![i].UseCount = @ + 1], disk, wr)

\* ApprovalManager.MatchRule
MatchRule(rs, disk, toolName, params, wr) ==
    MatchRuleAt(rs, disk, MatchRuleFrom(rs, toolName, MarshalParams(params), 1), wr)

\* ------------------------------------------------------------------------
\* Prompting (internal/ui/prompt.go)
\* ------------------------------------------------------------------------
\* what the user can type at the prompt; "EOF" is a failed read of stdin
PromptInputs == {"y", "n", "a", "zzz", "EOF"}

\* PromptForApproval: the response and whether an error is returned
PromptForApproval(input) ==
    IF input = "EOF" THEN [response |-> "no", err |-> TRUE]
    ELSE IF input \in {"y", "yes"} THEN [response |-> "yes", err |-> FALSE]
    ELSE IF input \in {"n", "no"} THEN [response |-> "no", err |-> FALSE]
    ELSE IF input \in {"a", "always"} THEN [response |-> "always", err |-> FALSE]
    ELSE [response |-> "no", err |-> FALSE]

\* ------------------------------------------------------------------------
\* Approval workflow (internal/tools/approval.go)
\* ------------------------------------------------------------------------
\* truncate(s, maxLen)
truncate(s, maxLen) ==
    IF Len(s) <= maxLen THEN s ELSE SubSeq(s, 1, maxLen - 3) \o <<".", ".", ".">>

\* the description "Auto-approve <tool> with params: <json>"
AutoDescription(toolName, paramsJSON) ==
    [prefix |-> "Auto-approve", tool |-> toolName, params |-> truncate(paramsJSON, 50)]

\* CreateAutoApprovalRule from json.Marshal on
CreateRuleFor(rs, disk, toolName, paramsJSON, order, wr) ==
    AddRule(rs, disk, toolName, escapeRegex(paramsJSON, order),
            AutoDescription(toolName, paramsJSON), wr)

\* CreateAutoApprovalRule
CreateAutoApprovalRule(rs, disk, toolName, params, order, wr) ==
    CreateRuleFor(rs, disk, toolName, MarshalParams(params), order, wr)

\* the result of CheckApproval and the rule store it leaves
Approval(approved, auto, desc, err, prompted, rule, rs, disk, wrote) ==
    [approved |-> approved, auto |-> auto, desc |-> desc, err |-> err,
     prompted |-> prompted, rule |-> rule, rules |-> rs, disk |-> disk, wrote |-> wrote]

\* CheckApproval, case ApprovalResponseAlways: c is what CreateAutoApprovalRule
\* returned (its error is only logged)
CheckApprovalAlways(c) ==
    Approval(TRUE, FALSE, "newly created rule", FALSE, TRUE, 0, c.rules, c.disk, c.wrote)

\* CheckApproval that takes a failed read of the answer for a yes
CheckApprovalPromptedReadErrorApproves(rs, disk, toolName, params, order, wr, r) ==
    IF r.err \/ r.response = "yes"
    THEN Approval(TRUE, FALSE, "", FALSE, TRUE, 0, rs, disk, FALSE)
    ELSE IF r.response = "no"
    THEN Approval(FALSE, FALSE, "", FALSE, TRUE, 0, rs, disk, FALSE)
    ELSE CheckApprovalAlways(CreateAutoApprovalRule(rs, disk, toolName, params, order, wr))

\* CheckApproval from the prompt on: r is what PromptForApproval returned
CheckApprovalPrompted(rs, disk, toolName, params, order, wr, r) ==
    IF r.err THEN Approval(FALSE, FALSE, "", TRUE, TRUE, 0, rs, disk, FALSE)
    ELSE IF r.response = "yes"
    THEN Approval(TRUE, FALSE, "", FALSE, TRUE, 0, rs, disk, FALSE)
    ELSE IF r.response = "no"
    THEN Approval(FALSE, FALSE, "", FALSE, TRUE, 0, rs, disk, FALSE)
    ELSE CheckApprovalAlways(CreateAutoApprovalRule(rs, disk, toolName, params, order, wr))

\* CheckApproval from the rule lookup on: m is what MatchRule returned
CheckApprovalMatched(rs, disk, toolName, params, input, order, wr, m) ==
    IF m.rule # 0
    THEN Approval(TRUE, TRUE, m.rules[m.rule].Description, FALSE, FALSE, m.rule,
                  m.rules, m.disk, TRUE)
    ELSE CheckApprovalPrompted(rs, disk, toolName, params, order, wr,
                               PromptForApproval(input))

\* CheckApproval: (approved, autoApproved, ruleDescription, err) and the
\* rule store it leaves.  input is the line the user types if prompted,
\* order the iteration order of escapeRegex, wr the outcome of the one
\* config write the call can make.
CheckApproval(rs, disk, toolName, params, input, order, wr) ==
    CheckApprovalMatched(rs, disk, toolName, params, input, order, wr,
                         MatchRule(rs, disk, toolName, params, wr))

\* ------------------------------------------------------------------------
\* Paths (path/filepath on a POSIX system); a path is a string
\* ------------------------------------------------------------------------
SEP == "/"

RECURSIVE SplitFrom(_, _, _)
\* strings.Split(s, "/"): cur is the element being read
SplitFrom(s, i, cur) ==
    IF i > Len(s) THEN <<cur>>
    ELSE IF s[i] = SEP THEN <<cur>> \o SplitFrom(s, i + 1, << >>)
         ELSE SplitFrom(s, i + 1, Append(cur, s[i]))

Split(s) == SplitFrom(s, 1, << >>)

RECURSIVE JoinSegs(_)
\* strings.Join(segs, "/")
JoinSegs(segs) ==
    IF segs = << >> THEN << >>
    ELSE IF Len(segs) = 1 THEN segs[1]
         ELSE segs[1] \o <<SEP>> \o JoinSegs(Tail(segs))

\* filepath.IsAbs
IsAbs(p) == p # << >> /\ p[1] = SEP

DOTDOT == <<".", ".">>

RECURSIVE CleanSegs(_, _, _)
\* the elements Clean keeps: out is the output built so far
CleanSegs(segs, rooted, out) ==
    IF segs = << >> THEN out
    ELSE LET e == Head(segs)
         IN IF e = << >> \/ e = <<".">>
            THEN CleanSegs(Tail(segs), rooted, out)
            ELSE IF e = DOTDOT
                 THEN IF out # << >> /\ out[Len(out)] # DOTDOT
                      THEN CleanSegs(Tail(segs), rooted, SubSeq(out, 1, Len(out) - 1))
                      ELSE IF rooted
                           THEN CleanSegs(Tail(segs), rooted, out)
                           ELSE CleanSegs(Tail(segs), rooted, Append(out, e))
                 ELSE CleanSegs(Tail(segs), rooted, Append(out, e))

\* the path Clean returns for the elements it keeps
CleanOut(rooted, segs) ==
    IF rooted THEN <<SEP>> \o JoinSegs(segs)
    ELSE IF segs = << >> THEN <<".">> ELSE JoinSegs(segs)

\* filepath.Clean
Clean(p) == CleanOut(IsAbs(p), CleanSegs(Split(p), IsAbs(p), << >>))

\* filepath.Join(a, b): empty elements are ignored, the result is cleaned
Join(a, b) ==
    IF a = << >> /\ b = << >> THEN << >>
    ELSE Clean(IF a = << >> THEN b ELSE IF b = << >> THEN a ELSE a \o <<SEP>> \o b)

\* the working directory of the process (os.Getwd), used by filepath.Abs
ProcessCwd == <<SEP, "w">>

\* filepath.Abs
Abs(p) == IF IsAbs(p) THEN Clean(p) ELSE Join(ProcessCwd, p)

\* the elements of a cleaned path
Elements(p) == CleanSegs(Split(p), IsAbs(p), << >>)

RECURSIVE CommonPrefixLen(_, _)
CommonPrefixLen(a, b) ==
    IF a = << >> \/ b = << >> THEN 0
    ELSE IF Head(a) = Head(b) THEN 1 + CommonPrefixLen(Tail(a), Tail(b)) ELSE 0

\* the relative path made of the elements segs
RelOut(segs) ==
    IF segs = << >> THEN [ok |-> TRUE, path |-> <<".">>]
    ELSE [ok |-> TRUE, path |-> JoinSegs(segs)]

\* Rel once the first n elements are known to be common: ".." for each
\* further element of base, then the further elements of targ
RelFrom(base, targ, n) ==
    RelOut([k \in 1..(Len(base) - n) |-> DOTDOT] \o SubSeq(targ, n + 1, Len(targ)))

\* Rel on the elements of the two cleaned paths
RelElements(base, targ) == RelFrom(base, targ, CommonPrefixLen(base, targ))

\* filepath.Rel(basepath, targpath): (relative path, ok)
Rel(basepath, targpath) ==
    IF IsAbs(basepath) # IsAbs(targpath)
    THEN [ok |-> FALSE, path |-> << >>]
    ELSE RelElements(Elements(Clean(basepath)), Elements(Clean(targpath)))

\* the directory of the path with the elements segs
DirOut(segs) ==
    IF Len(segs) <= 1 THEN <<SEP>>
    ELSE <<SEP>> \o JoinSegs(SubSeq(segs, 1, Len(segs) - 1))

\* filepath.Dir of a cleaned absolute path
Dir(p) == DirOut(Elements(p))

\* ------------------------------------------------------------------------
\* Path guard (internal/tools/security.go)
\* ------------------------------------------------------------------------
NoErr == [wrap |-> << >>, msg |-> "", path |-> << >>, resolved |-> << >>]

\* fmt.Errorf(msg, path, resolved)
Err(msg, path, resolved) ==
    [wrap |-> << >>, msg |-> msg, path |-> path, resolved |-> resolved]

\* fmt.Errorf(prefix + ": %w", e)
Wrap(prefix, e) == [e EXCEPT !.wrap = <<prefix>> \o @]

\* the check ValidatePath makes on the relative path
ValidateRel(requestedPath, absRequested, rel) ==
    IF ~rel.ok
    THEN Err("is outside working directory", requestedPath, << >>)
    ELSE IF HasPrefix(rel.path, DOTDOT) \/ HasPrefix(rel.path, <<SEP>>)
         THEN Err("is outside working directory", requestedPath, absRequested)
         ELSE NoErr

\* ValidatePath once both paths are absolute and cleaned
ValidateCleaned(requestedPath, absRequested, absWorking) ==
    ValidateRel(requestedPath, absRequested, Rel(absWorking, absRequested))

\* ValidatePath without the check of the relative path for a leading ".."
ValidatePathRelOnly(workingDir, requestedPath) ==
    IF ~Rel(Clean(Abs(workingDir)), Clean(Abs(requestedPath))).ok
    THEN Err("is outside working directory", requestedPath, << >>)
    ELSE NoErr

\* ValidatePath(workingDir, requestedPath): the error returned, NoErr for nil
ValidatePath(workingDir, requestedPath) ==
    ValidateCleaned(requestedPath, Clean(Abs(requestedPath)), Clean(Abs(workingDir)))

\* ResolvePath from the call of ValidatePath on: e is the error it returned
ResolveChecked(absPath, e) ==
    IF e # NoErr THEN [path |-> << >>, err |-> e]
    ELSE [path |-> Clean(absPath), err |-> NoErr]

\* ResolvePath once the path is absolute
ResolveAbs(workingDir, absPath) ==
    ResolveChecked(absPath, ValidatePath(workingDir, absPath))

\* ResolvePath(workingDir, requestedPath): (resolved path, error)
ResolvePath(workingDir, requestedPath) ==
    ResolveAbs(workingDir, IF IsAbs(requestedPath) THEN requestedPath
                           ELSE Join(workingDir, requestedPath))

\* ------------------------------------------------------------------------
\* File system: the regular files (path -> content) and the directories
\* ------------------------------------------------------------------------
Exists(fs, p) == p \in DOMAIN fs.files \/ p \in fs.dirs

\* the proper ancestors of an absolute path, and the path itself
RECURSIVE Ancestors(_)
Ancestors(p) == IF Elements(p) = << >> THEN {p} ELSE {p} \cup Ancestors(Dir(p))

\* MkdirAll when anc are the path and its ancestors
MkdirAllOf(fs, anc, io) ==
    IF ~io \/ \E a \in anc : a \in DOMAIN fs.files
    THEN [ok |-> FALSE, fs |-> fs]
    ELSE [ok |-> TRUE, fs |-> [fs EXCEPT !.dirs = @ \cup anc]]

\* os.MkdirAll(p): fails if an element of p is a regular file
MkdirAll(fs, p, io) == MkdirAllOf(fs, Ancestors(p), io)

\* os.WriteFile(p, content): creates or truncates the file
WriteFile(fs, p, content, io) ==
    IF ~io \/ p \in fs.dirs \/ Dir(p) \notin fs.dirs
    THEN [ok |-> FALSE, fs |-> fs]
    ELSE [ok |-> TRUE,
          fs |-> [fs EXCEPT !.files =
                     [q \in (DOMAIN fs.files) \cup {p} |->
                         IF q = p THEN content ELSE fs.files[q]]]]

\* ------------------------------------------------------------------------
\* Tools (internal/tools/file.go, directory.go, search.go)
\* ------------------------------------------------------------------------
maxFileSize == 10 * 1024 * 1024

\* params[k].(string) succeeds
IsString(params, k) == k \in DOMAIN params /\ params[k].t = "str"

NoResult ==
    [ToolCallID |-> 0, Success |-> FALSE, Output |-> << >>, Error |-> NoErr,
     FilesAffected |-> << >>, nil |-> TRUE]

\* &types.ToolResult{Success: false, Error: ...}
FailResult(e) ==
    [ToolCallID |-> 0, Success |-> FALSE, Output |-> << >>, Error |-> e,
     FilesAffected |-> << >>, nil |-> FALSE]

\* &types.ToolResult{Success: true, Output: ..., FilesAffected: ...}
OkResult(output, affected) ==
    [ToolCallID |-> 0, Success |-> TRUE, Output |-> output, Error |-> NoErr,
     FilesAffected |-> affected, nil |-> FALSE]

Validated(e, access) == [err |-> e, access |-> access]

Executed(result, e, fs, access) ==
    [result |-> result, err |-> e, fs |-> fs, access |-> access]

\* CreateFileTool.Validate from the call of ResolvePath on: r is its result
\* CreateFileTool.Validate without the test of os.Stat
CreateFileValidateAnyTarget(params, r, fs) ==
    IF r.err # NoErr THEN Validated(r.err, {}) ELSE Validated(NoErr, {r.path})

CreateFileValidateResolved(params, r, fs) ==
    IF r.err # NoErr THEN Validated(r.err, {})
    ELSE IF Exists(fs, r.path)
         THEN Validated(Err("already exists", params["path"].v, << >>), {r.path})
         ELSE Validated(NoErr, {r.path})

\* CreateFileTool.Validate
CreateFileValidate(params, workingDir, fs) ==
    IF ~IsString(params, "path") \/ params["path"].v = << >>
    THEN Validated(Err("path parameter is required", << >>, << >>), {})
    ELSE IF ~IsString(params, "content")
    THEN Validated(Err("content parameter is required", << >>, << >>), {})
    ELSE IF Len(params["content"].v) > maxFileSize
    THEN Validated(Err("content size exceeds maximum", << >>, << >>), {})
    ELSE CreateFileValidateResolved(params, ResolvePath(workingDir, params["path"].v), fs)

\* CreateFileTool.Execute from os.WriteFile on: m and w are the outcomes of
\* MkdirAll and WriteFile
CreateFileWritten(path, resolved, m, w) ==
    IF ~w.ok
    THEN Executed(FailResult(Err("failed to write file", path, << >>)),
                  Err("failed to write file", path, << >>),
                  m.fs, {Dir(resolved), resolved})
    ELSE Executed(OkResult(<<"Created file:", path>>, <<path>>), NoErr,
                  w.fs, {Dir(resolved), resolved})

\* CreateFileTool.Execute from os.MkdirAll on
CreateFileInDir(params, resolved, fs, m, io) ==
    IF ~m.ok
    THEN Executed(FailResult(Err("failed to create directory", Dir(resolved), << >>)),
                  Err("failed to create directory", Dir(resolved), << >>),
                  fs, {Dir(resolved)})
    ELSE CreateFileWritten(params["path"].v, resolved, m,
                           WriteFile(m.fs, resolved, params["content"].v, io))

\* CreateFileTool.Execute from the call of ResolvePath on
CreateFileExecuteResolved(params, r, fs, io) ==
    IF r.err # NoErr THEN Executed(FailResult(r.err), r.err, fs, {})
    ELSE CreateFileInDir(params, r.path, fs, MkdirAll(fs, Dir(r.path), TRUE), io)

\* CreateFileTool.Execute
CreateFileExecute(params, workingDir, fs, io) ==
    CreateFileExecuteResolved(params, ResolvePath(workingDir, params["path"].v), fs, io)

\* the checks ReadFileTool.Validate and ReplaceStringInFileTool.Validate
\* make on the file once the path is resolved
ExistingFileValidate(path, r, fs) ==
    IF r.err # NoErr THEN Validated(r.err, {})
    ELSE IF ~Exists(fs, r.path)
         THEN Validated(Err("not found", path, << >>), {r.path})
         ELSE IF r.path \in fs.dirs
              THEN Validated(Err("is a directory, not a file", path, << >>), {r.path})
              ELSE Validated(NoErr, {r.path})

\* ReadFileTool.Validate (the line range is not modelled)
ReadFileValidate(params, workingDir, fs) ==
    IF ~IsString(params, "path") \/ params["path"].v = << >>
    THEN Validated(Err("path parameter is required", << >>, << >>), {})
    ELSE ExistingFileValidate(params["path"].v,
                              ResolvePath(workingDir, params["path"].v), fs)

\* ReadFileTool.Execute from the call of ResolvePath on
ReadFileExecuteResolved(path, r, fs, io) ==
    IF r.err # NoErr THEN Executed(FailResult(r.err), r.err, fs, {})
    ELSE IF ~io \/ r.path \notin DOMAIN fs.files
         THEN Executed(FailResult(Err("failed to read file", path, << >>)),
                       Err("failed to read file", path, << >>), fs, {r.path})
         ELSE Executed(OkResult(<<"File:", path, fs.files[r.path]>>, << >>), NoErr,
                       fs, {r.path})

\* ReadFileTool.Execute
ReadFileExecute(params, workingDir, fs, io) ==
    ReadFileExecuteResolved(params["path"].v,
                            ResolvePath(workingDir, params["path"].v), fs, io)

\* ReplaceStringInFileTool.Validate
ReplaceStringValidate(params, workingDir, fs) ==
    IF ~IsString(params, "path") \/ params["path"].v = << >>
    THEN Validated(Err("path parameter is required", << >>, << >>), {})
    ELSE IF ~IsString(params, "old_string") \/ params["old_string"].v = << >>
    THEN Validated(Err("old_string parameter is required", << >>, << >>), {})
    ELSE IF ~IsString(params, "new_string")
    THEN Validated(Err("new_string parameter is required", << >>, << >>), {})
    ELSE ExistingFileValidate(params["path"].v,
                              ResolvePath(workingDir, params["path"].v), fs)

\* strings.Index(s, sub) + 1, 0 if sub does not occur in s
IndexOf(s, sub) ==
    IF ContainsStr(s, sub)
    THEN 1 + CHOOSE i \in 0..(Len(s) - Len(sub)) :
                 /\ SubSeq(s, i + 1, i + Len(sub)) = sub
                 /\ \A j \in 0..(i - 1) : SubSeq(s, j + 1, j + Len(sub)) # sub
    ELSE 0

\* s with the occurrence of old at index i replaced by new
ReplaceAt(s, old, new, i) ==
    IF i = 0 THEN s
    ELSE SubSeq(s, 1, i - 1) \o new \o SubSeq(s, i + Len(old), Len(s))

\* s with the last occurrence of old replaced by new
ReplaceLast(s, old, new) ==
    IF ~ContainsStr(s, old) THEN s
    ELSE ReplaceAt(s, old, new,
                   1 + CHOOSE i \in 0..(Len(s) - Len(old)) :
                         /\ SubSeq(s, i + 1, i + Len(old)) = old
                         /\ \A j \in (i + 1)..(Len(s) - Len(old)) :
                               SubSeq(s, j + 1, j + Len(old)) # old)

\* strings.Replace(s, old, new, 1)
ReplaceFirst(s, old, new) == ReplaceAt(s, old, new, IndexOf(s, old))

\* ReplaceStringInFileTool.Execute from os.WriteFile on
ReplaceStringWritten(path, resolved, fs, w) ==
    IF ~w.ok
    THEN Executed(FailResult(Err("failed to write file", path, << >>)),
                  Err("failed to write file", path, << >>), fs, {resolved})
    ELSE Executed(OkResult(<<"Replaced 1 occurrence in", path>>, <<path>>),
                  NoErr, w.fs, {resolved})

\* ReplaceStringInFileTool.Execute from the call of ResolvePath on
ReplaceStringExecuteResolved(params, r, fs, io) ==
    IF r.err # NoErr THEN Executed(FailResult(r.err), r.err, fs, {})
    ELSE IF r.path \notin DOMAIN fs.files
    THEN Executed(FailResult(Err("failed to read file", params["path"].v, << >>)),
                  Err("failed to read file", params["path"].v, << >>), fs, {r.path})
    ELSE IF ~ContainsStr(fs.files[r.path], params["old_string"].v)
    THEN Executed(FailResult(Err("string not found in file", params["old_string"].v, << >>)),
                  Err("string not found in file", params["old_string"].v, << >>),
                  fs, {r.path})
    ELSE ReplaceStringWritten(params["path"].v, r.path, fs,
            WriteFile(fs, r.path,
                      ReplaceFirst(fs.files[r.path], params["old_string"].v,
                                   params["new_string"].v), io))

\* ReplaceStringInFileTool.Execute
ReplaceStringExecute(params, workingDir, fs, io) ==
    ReplaceStringExecuteResolved(params, ResolvePath(workingDir, params["path"].v), fs, io)

\* CreateDirectoryTool.Validate
CreateDirectoryValidate(params, workingDir, fs) ==
    IF ~IsString(params, "path") \/ params["path"].v = << >>
    THEN Validated(Err("path parameter is required", << >>, << >>), {})
    ELSE Validated(ResolvePath(workingDir, params["path"].v).err, {})

\* CreateDirectoryTool.Execute from os.MkdirAll on
CreateDirectoryMade(path, resolved, fs, m) ==
    IF ~m.ok
    THEN Executed(FailResult(Err("failed to create directory", path, << >>)),
                  Err("failed to create directory", path, << >>), fs, {resolved})
    ELSE Executed(OkResult(<<"Created directory:", path>>, <<path>>), NoErr,
                  m.fs, {resolved})

\* CreateDirectoryTool.Execute from the call of ResolvePath on
CreateDirectoryExecuteResolved(path, r, fs, io) ==
    IF r.err # NoErr THEN Executed(FailResult(r.err), r.err, fs, {})
    ELSE CreateDirectoryMade(path, r.path, fs, MkdirAll(fs, r.path, io))

\* CreateDirectoryTool.Execute
CreateDirectoryExecute(params, workingDir, fs, io) ==
    CreateDirectoryExecuteResolved(params["path"].v,
                                   ResolvePath(workingDir, params["path"].v), fs, io)

\* the path list_dir works on: params["path"] or the default "."
ListDirPath(params) ==
    IF IsString(params, "path") /\ params["path"].v # << >>
    THEN params["path"].v ELSE <<".">>

\* ListDirTool.Validate from the call of ResolvePath on
ListDirValidateResolved(path, r, fs) ==
    IF r.err # NoErr THEN Validated(r.err, {})
    ELSE IF ~Exists(fs, r.path)
         THEN Validated(Err("not found", path, << >>), {r.path})
         ELSE IF r.path \notin fs.dirs
              THEN Validated(Err("is not a directory", path, << >>), {r.path})
              ELSE Validated(NoErr, {r.path})

\* ListDirTool.Validate
ListDirValidate(params, workingDir, fs) ==
    ListDirValidateResolved(ListDirPath(params),
                            ResolvePath(workingDir, ListDirPath(params)), fs)

\* ListDirTool.Execute from the call of ResolvePath on
ListDirExecuteResolved(path, r, fs, io) ==
    IF r.err # NoErr THEN Executed(FailResult(r.err), r.err, fs, {})
    ELSE IF ~io \/ r.path \notin fs.dirs
         THEN Executed(FailResult(Err("failed to read directory", path, << >>)),
                       Err("failed to read directory", path, << >>), fs, {r.path})
         ELSE Executed(OkResult(<<"Contents of", path>>, << >>), NoErr, fs, {r.path})

\* ListDirTool.Execute
ListDirExecute(params, workingDir, fs, io) ==
    ListDirExecuteResolved(ListDirPath(params),
                           ResolvePath(workingDir, ListDirPath(params)), fs, io)

\* FileSearchTool.Validate (the glob syntax check is not modelled)
FileSearchValidate(params, workingDir, fs) ==
    IF ~IsString(params, "pattern") \/ params["pattern"].v = << >>
    THEN Validated(Err("pattern parameter is required", << >>, << >>), {})
    ELSE IF IsString(params, "base_path") /\ params["base_path"].v # << >>
    THEN IF ValidatePath(workingDir, Join(workingDir, params["base_path"].v)) # NoErr
         THEN Validated(Err("is outside working directory", params["base_path"].v, << >>), {})
         ELSE Validated(NoErr, {})
    ELSE Validated(NoErr, {})

\* the base path file_search works on: params["base_path"] or the default "."
FileSearchBase(params) ==
    IF IsString(params, "base_path") /\ params["base_path"].v # << >>
    THEN params["base_path"].v ELSE <<".">>

\* FileSearchTool.Execute: walks the tree below the base path
FileSearchExecute(params, workingDir, fs, io) ==
    Executed(OkResult(<<"Found files matching", params["pattern"].v>>, << >>), NoErr,
             fs, {Join(workingDir, FileSearchBase(params))})

\* ------------------------------------------------------------------------
\* Registry (internal/tools/security.go, second part: registry)
\* ------------------------------------------------------------------------
\* the tools registered by registerTools that take a path
RegisteredTools ==
    {"create_file", "read_file", "replace_string_in_file", "create_directory",
     "list_dir", "file_search"}

\* tool.Validate(params, workingDir)
ToolValidate(toolName, params, workingDir, fs) ==
    CASE toolName = "create_file" -> CreateFileValidate(params, workingDir, fs)
      [] toolName = "read_file" -> ReadFileValidate(params, workingDir, fs)
      [] toolName = "replace_string_in_file" -> ReplaceStringValidate(params, workingDir, fs)
      [] toolName = "create_directory" -> CreateDirectoryValidate(params, workingDir, fs)
      [] toolName = "list_dir" -> ListDirValidate(params, workingDir, fs)
      [] toolName = "file_search" -> FileSearchValidate(params, workingDir, fs)

\* tool.Execute(ctx, params, workingDir)
ToolExecute(toolName, params, workingDir, fs, io) ==
    CASE toolName = "create_file" -> CreateFileExecute(params, workingDir, fs, io)
      [] toolName = "read_file" -> ReadFileExecute(params, workingDir, fs, io)
      [] toolName = "replace_string_in_file" -> ReplaceStringExecute(params, workingDir, fs, io)
      [] toolName = "create_directory" -> CreateDirectoryExecute(params, workingDir, fs, io)
      [] toolName = "list_dir" -> ListDirExecute(params, workingDir, fs, io)
      [] toolName = "file_search" -> FileSearchExecute(params, workingDir, fs, io)

\* Registry.Execute from the call of tool.Execute on: x is what it returned
RegistryExecuted(v, x) ==
    [result |-> x.result,
     err |-> IF x.err = NoErr THEN NoErr ELSE Wrap("execution failed", x.err),
     fs |-> x.fs, access |-> v.access \cup x.access,
     validated |-> TRUE, executed |-> TRUE]

\* Registry.Execute that calls tool.Execute whatever tool.Validate returned
RegistryValidatedThenExecuteAnyway(toolName, params, workingDir, fs, io, v) ==
    RegistryExecuted(v, ToolExecute(toolName, params, workingDir, fs, io))

\* Registry.Execute from the call of tool.Validate on: v is what it returned
RegistryValidated(toolName, params, workingDir, fs, io, v) ==
    IF v.err # NoErr
    THEN [result |-> NoResult, err |-> Wrap("validation failed", v.err),
          fs |-> fs, access |-> v.access, validated |-> TRUE, executed |-> FALSE]
    ELSE RegistryExecuted(v, ToolExecute(toolName, params, workingDir, fs, io))

\* Registry.Execute: the result and error returned, the file system left,
\* the paths accessed, and which of Validate and Execute were invoked
RegistryExecute(toolName, params, workingDir, fs, io) ==
    IF toolName \notin RegisteredTools
    THEN [result |-> NoResult, err |-> Err("tool not found", << >>, << >>), fs |-> fs,
          access |-> {}, validated |-> FALSE, executed |-> FALSE]
    ELSE RegistryValidated(toolName, params, workingDir, fs, io,
                           ToolValidate(toolName, params, workingDir, fs))

\* ------------------------------------------------------------------------
\* Terminal tools (internal/tools: run_in_terminal, terminal_last_command)
\* ------------------------------------------------------------------------
RECURSIVE TrimLeft(_)
TrimLeft(s) == IF s # << >> /\ Head(s) = " " THEN TrimLeft(Tail(s)) ELSE s

RECURSIVE TrimRight(_)
TrimRight(s) ==
    IF s # << >> /\ s[Len(s)] = " " THEN TrimRight(SubSeq(s, 1, Len(s) - 1)) ELSE s

\* strings.TrimSpace
TrimSpace(s) == TrimRight(TrimLeft(s))

Digits == <<"0", "1", "2", "3", "4", "5", "6", "7", "8", "9">>

RECURSIVE ParseNumber(_, _)
\* the number a JSON literal of digits stands for: acc is the value read so far
ParseNumber(cs, acc) ==
    IF cs = << >> THEN acc
    ELSE ParseNumber(Tail(cs), 10 * acc + (CHOOSE n \in 0..9 : Digits[n + 1] = Head(cs)))

\* fmt.Sprintf("%d", exitCode)
ExitCodeText(code) == IF code < 0 THEN <<"-", Digits[1 - code]>> ELSE <<Digits[code + 1]>>

\* ExecutedCommand{Command, ExitCode, Stdout, Stderr}
ExecutedCommand(command, exitCode, stdout, stderr) ==
    [Command |-> command, ExitCode |-> exitCode, Stdout |-> stdout, Stderr |-> stderr]

\* CommandHistory.AddCommand that puts the command in front
AddCommandInFront(commands, cmd) == <<cmd>> \o commands

\* CommandHistory.AddCommand
AddCommand(commands, cmd) == Append(commands, cmd)

\* CommandHistory.GetLast: the last command, none if the history is empty
GetLast(commands) ==
    IF Len(commands) = 0 THEN << >> ELSE <<commands[Len(commands)]>>

\* what cmd.Run() can return: nil or an ExitError after the shell ran the
\* command (with code -1 when the shell was killed at the deadline), the
\* error of the expired deadline, or another error (the shell did not start)
RunOutcomes ==
    { [kind |-> "exit", code |-> 0, stdout |-> <<"o">>, stderr |-> << >>],
      [kind |-> "exit", code |-> 1, stdout |-> << >>, stderr |-> <<"e">>],
      [kind |-> "exit", code |-> -1, stdout |-> << >>, stderr |-> << >>],
      [kind |-> "deadline", code |-> 0, stdout |-> << >>, stderr |-> << >>],
      [kind |-> "error", code |-> 0, stdout |-> << >>, stderr |-> << >>] }

\* RunInTerminalTool.Validate
RunInTerminalValidate(params) ==
    IF ~IsString(params, "command") \/ TrimSpace(params["command"].v) = << >>
    THEN Validated(Err("command parameter is required", << >>, << >>), {})
    ELSE IF /\ "timeout_seconds" \in DOMAIN params
            /\ params["timeout_seconds"].t = "raw"
            /\ \/ ParseNumber(params["timeout_seconds"].v, 0) < 1
               \/ ParseNumber(params["timeout_seconds"].v, 0) > 300
    THEN Validated(Err("timeout_seconds must be between 1 and 300", << >>, << >>), {})
    ELSE Validated(NoErr, {})

\* the ToolResult of a tool that fails with an output text
FailResultWithOutput(output, e) == [FailResult(e) EXCEPT !.Output = output]

\* the ToolResult of run_in_terminal for a command the shell ran
RanResult(command, out) ==
    [ToolCallID |-> 0, Success |-> out.code = 0,
     Output |-> <<"Command:", command, "Exit code:", ExitCodeText(out.code),
                  out.stdout, out.stderr>>,
     Error |-> NoErr, FilesAffected |-> << >>, nil |-> FALSE]

\* RunInTerminalTool.Execute once the command is trimmed: out is what
\* cmd.Run() returned
RunInTerminalRun(command, fs, commands, out) ==
    IF out.kind = "deadline"
    THEN [result |-> FailResultWithOutput(<<"Command timed out">>,
                                          Err("timeout after", << >>, << >>)),
          err |-> Err("command timed out", << >>, << >>),
          fs |-> fs, access |-> {}, commands |-> commands]
    ELSE IF out.kind = "error"
    THEN [result |-> FailResultWithOutput(<<"Command failed">>,
                                          Err("exec error", << >>, << >>)),
          err |-> Err("exec error", << >>, << >>),
          fs |-> fs, access |-> {}, commands |-> commands]
    ELSE [result |-> RanResult(command, out), err |-> NoErr, fs |-> fs, access |-> {},
          commands |-> AddCommand(commands,
                          ExecutedCommand(command, out.code, out.stdout, out.stderr))]

\* RunInTerminalTool.Execute
RunInTerminalExecute(params, fs, commands, out) ==
    RunInTerminalRun(TrimSpace(params["command"].v), fs, commands, out)

\* TerminalLastCommandTool.Execute from the call of GetLast on
TerminalLastCommandGot(lastCmd, fs, commands) ==
    IF lastCmd = << >>
    THEN [result |-> FailResultWithOutput(<<"No previous command in this session">>,
                                          Err("no command history", << >>, << >>)),
          err |-> Err("no command history", << >>, << >>),
          fs |-> fs, access |-> {}, commands |-> commands]
    ELSE [result |-> OkResult(<<"Last command:", lastCmd[1].Command, "Exit code:",
                                ExitCodeText(lastCmd[1].ExitCode), lastCmd[1].Stdout,
                                lastCmd[1].Stderr>>, << >>),
          err |-> NoErr, fs |-> fs, access |-> {}, commands |-> commands]

\* TerminalLastCommandTool.Execute
TerminalLastCommandExecute(fs, commands) ==
    TerminalLastCommandGot(GetLast(commands), fs, commands)

\* the terminal tools, registered with a registry as the tests do
TerminalTools == {"run_in_terminal", "terminal_last_command"}

\* tool.Validate(params, workingDir) of a terminal tool
TerminalValidate(toolName, params) ==
    IF toolName = "run_in_terminal" THEN RunInTerminalValidate(params)
    ELSE Validated(NoErr, {})

\* tool.Execute(ctx, params, workingDir) of a terminal tool
TerminalExecute(toolName, params, fs, commands, out) ==
    IF toolName = "run_in_terminal" THEN RunInTerminalExecute(params, fs, commands, out)
    ELSE TerminalLastCommandExecute(fs, commands)

\* Registry.Execute of a terminal tool from the call of tool.Execute on
RegistryTerminalExecuted(v, x) ==
    [reg |-> RegistryExecuted(v, x), commands |-> x.commands]

\* Registry.Execute of a terminal tool from the call of tool.Validate on
RegistryTerminalValidated(toolName, params, fs, commands, out, v) ==
    IF v.err # NoErr
    THEN [reg |-> [result |-> NoResult, err |-> Wrap("validation failed", v.err),
                   fs |-> fs, access |-> v.access, validated |-> TRUE,
                   executed |-> FALSE],
          commands |-> commands]
    ELSE RegistryTerminalExecuted(v, TerminalExecute(toolName, params, fs, commands, out))

\* Registry.Execute of a terminal tool: what it returns, and the command
\* history it leaves
RegistryExecuteTerminal(toolName, params, fs, commands, out) ==
    RegistryTerminalValidated(toolName, params, fs, commands, out,
                              TerminalValidate(toolName, params))

\* ------------------------------------------------------------------------
\* Conversation context and sessions (internal/agent/context.go, session.go)
\* ------------------------------------------------------------------------
maxMessages == 100
maxToolResults == 50

\* PruneMessages that keeps the first maxMessages messages
PruneMessagesKeepOldest(msgs) ==
    IF Len(msgs) <= maxMessages THEN msgs ELSE SubSeq(msgs, 1, maxMessages)

\* ContextManager.PruneMessages
PruneMessages(msgs) ==
    IF Len(msgs) <= maxMessages THEN msgs
    ELSE SubSeq(msgs, Len(msgs) - maxMessages + 1, Len(msgs))

\* ContextManager.AddMessage
AddMessage(msgs, message) ==
    IF Len(Append(msgs, message)) > maxMessages
    THEN PruneMessages(Append(msgs, message))
    ELSE Append(msgs, message)

\* ContextManager.AddToolResult
AddToolResult(results, result) ==
    IF Len(Append(results, result)) > maxToolResults
    THEN SubSeq(Append(results, result),
                Len(Append(results, result)) - maxToolResults + 1,
                Len(Append(results, result)))
    ELSE Append(results, result)

\* types.Message
Message(role, content, toolCalls, toolCallID) ==
    [Role |-> role, Content |-> content, ToolCalls |-> toolCalls,
     tool_call_id |-> toolCallID]

\* SessionManager.Save: the session file after the write
SessionSave(session, file, wr) == IF wr THEN session ELSE file

\* ------------------------------------------------------------------------
\* The language model's responses
\* ------------------------------------------------------------------------
\* parameter maps the model proposes
AgentParams ==
    { [content |-> Str(<<"x">>), path |-> Str(<<"a">>)],
      [path |-> Str(<<"f">>)],
      [path |-> Str(<<".", ".", "/", "x">>)],
      [command |-> Str(<<"c">>)],
      [command |-> Str(<<"d">>)],
      [command |-> Str(<<" ">>)],
      [command |-> Str(<<"c">>), timeout_seconds |-> Raw(<<"0">>)],
      [extra |-> Str(<<"x">>)] }

\* an argument string that is not JSON
Malformed == <<"{", "b">>

\* json.Unmarshal([]byte(arguments), &params)
Unmarshal(arguments) ==
    IF \E q \in AgentParams : MarshalParams(q) = arguments
    THEN [ok |-> TRUE, params |-> CHOOSE q \in AgentParams : MarshalParams(q) = arguments]
    ELSE [ok |-> FALSE, params |-> << >>]

\* (function name, argument string) of the tool calls the model proposes
LLMCalls ==
    { <<"create_file", MarshalParams([content |-> Str(<<"x">>), path |-> Str(<<"a">>)])>>,
      <<"read_file", MarshalParams([path |-> Str(<<"f">>)])>>,
      <<"read_file", MarshalParams([path |-> Str(<<".", ".", "/", "x">>)])>>,
      <<"read_file", Malformed>> }

\* a tool call of choice.Message.ToolCalls
RawCall(id, c) == [ID |-> id, Name |-> c[1], Arguments |-> c[2]]

\* a response of ChatCompletion
Response(err, choices, content, toolCalls) ==
    [err |-> err, choices |-> choices, content |-> content, toolCalls |-> toolCalls]

\* the responses that propose k tool calls taken from calls, with ids n+1..n+k
CallResponses(calls, n, k) ==
    { Response(FALSE, 1, << >>, [j \in 1..k |-> RawCall(n + j, f[j])]) :
        f \in [1..k -> calls] }

\* the responses without tool calls: a transport error, no choice, a text
PlainResponses ==
    { Response(TRUE, 0, << >>, << >>), Response(FALSE, 0, << >>, << >>),
      Response(FALSE, 1, <<"text">>, << >>) }

\* ------------------------------------------------------------------------
\* Agent (internal/agent/agent.go)
\* ------------------------------------------------------------------------
MaxIterations == 10

\* the loop condition of Run
LoopContinuesInclusive(iteration) == iteration <= MaxIterations

LoopContinues(iteration) == iteration < MaxIterations

\* the entry appended to assistantMessage.ToolCalls for a call whose
\* arguments parsed as u; none if they did not parse
ParsedCall(call, u) ==
    IF ~u.ok THEN << >>
    ELSE <<[ID |-> call.ID, ToolName |-> call.Name, Parameters |-> u.params]>>

RECURSIVE ParseToolCalls(_)
\* the tool calls of the assistant message: those whose arguments parse
ParseToolCalls(raw) ==
    IF raw = << >> THEN << >>
    ELSE ParsedCall(Head(raw), Unmarshal(Head(raw).Arguments))
            \o ParseToolCalls(Tail(raw))

\* &types.ToolResult{ToolCallID: id, Success: false, Error: e}
ErrorResult(id, e) == [FailResult(e) EXCEPT !.ToolCallID = id]

RejectedMessage == "Operation rejected by user"

\* executeToolCall from the call of Registry.Execute on: r is what it returned
executeApproved(toolCall, fs, r) ==
    [result |-> IF r.err # NoErr THEN ErrorResult(toolCall.ID, r.err)
                ELSE [r.result EXCEPT !.ToolCallID = toolCall.ID],
     err |-> r.err, fs |-> r.fs, access |-> r.access,
     called |-> TRUE, executed |-> r.executed]

\* executeToolCall returning before the registry is called
executeRefused(toolCall, fs, result, err) ==
    [result |-> result, err |-> err, fs |-> fs, access |-> {},
     called |-> FALSE, executed |-> FALSE]

\* executeToolCall without the checks of err and approved
executeToolCallUngated(toolCall, chk, workingDir, fs, io) ==
    executeApproved(toolCall, fs,
        RegistryExecute(toolCall.ToolName, toolCall.Parameters, workingDir, fs, io))

\* executeToolCall returning an error for a rejected call
executeToolCallRejectFails(toolCall, chk, workingDir, fs, io) ==
    IF chk.err \/ ~chk.approved
    THEN executeRefused(toolCall, fs, NoResult, Err("approval check failed", << >>, << >>))
    ELSE executeApproved(toolCall, fs,
            RegistryExecute(toolCall.ToolName, toolCall.Parameters, workingDir, fs, io))

\* executeToolCall from the approval check on: chk is what CheckApproval
\* returned, r what Registry.Execute returns for the call
executeChecked(toolCall, chk, fs, r) ==
    IF chk.err
    THEN executeRefused(toolCall, fs, NoResult, Err("approval check failed", << >>, << >>))
    ELSE IF ~chk.approved
    THEN executeRefused(toolCall, fs,
                        ErrorResult(toolCall.ID, Err(RejectedMessage, << >>, << >>)), NoErr)
    ELSE executeApproved(toolCall, fs, r)

\* what executeToolCall returns once the approval check has returned chk:
\* result and error, the file system left, the paths accessed, and whether
\* the registry and the tool's Execute were invoked
executeToolCall(toolCall, chk, workingDir, fs, io) ==
    executeChecked(toolCall, chk, fs,
        RegistryExecute(toolCall.ToolName, toolCall.Parameters, workingDir, fs, io))

\* the result Run records for the call: executeToolCall's, or an error result
RunResult(toolCall, x) ==
    IF x.err # NoErr THEN ErrorResult(toolCall.ID, x.err) ELSE x.result

\* ------------------------------------------------------------------------
\* Retry with backoff (internal/llm/retry.go); durations in seconds
\* ------------------------------------------------------------------------
maxRetries == 3
initialBackoff == 1
maxBackoff == 10

\* DefaultRetryConfig()
DefaultRetryConfig ==
    [MaxRetries |-> maxRetries, InitialBackoff |-> initialBackoff,
     MaxBackoff |-> maxBackoff]

\* the configurations WithRetry is called with
RetryConfigs ==
    {DefaultRetryConfig} \cup
    { [MaxRetries |-> n, InitialBackoff |-> b, MaxBackoff |-> maxBackoff] :
        n \in 0..MaxConfigRetries, b \in {initialBackoff, 8} }

\* the loop condition of WithRetry
RetryLoopContinues(a, config) == a <= config.MaxRetries

\* the last-attempt test that stops one attempt early
IsLastAttemptEarly(a, config) == a + 1 = config.MaxRetries

\* "Last attempt - don't retry"
IsLastAttempt(a, config) == a = config.MaxRetries

\* the next backoff: doubled, capped at MaxBackoff
NextBackoff(b, config) == IF b * 2 > config.MaxBackoff THEN config.MaxBackoff ELSE b * 2

\* the cases of the select of WithRetry that can proceed: the Done channel of
\* the context is closed, the channel of time.After has its value
SelectReadyTimerOnly(done, fired) == IF done \/ fired THEN {"timer"} ELSE {}

SelectReady(done, fired) ==
    (IF done THEN {"done"} ELSE {}) \cup (IF fired THEN {"timer"} ELSE {})

\* what WithRetry returns: nil, "retry cancelled: ctx.Err()", or "max retries
\* exceeded: lastErr"; wraps is the invocation of fn whose error is wrapped
NoReturn == [kind |-> "none", wraps |-> 0]
Return(kind, wraps) == [kind |-> kind, wraps |-> wraps]

\* ------------------------------------------------------------------------
\* State
\* ------------------------------------------------------------------------
VARIABLES
    rules,       \* ApprovalManager.rules of the running process
    diskRules,   \* auto_approval_rules of <home>/.wink/config.json
    last,        \* the most recent CheckApproval call: arguments, user response, result
    nchecks,     \* CheckApproval calls made directly so far
    nadded,      \* AddRule calls made directly so far
    nfail,       \* failed writes of the config file and the session file so far
    pc,          \* position of Run: idle, llm, call, save, finish, done, error
    iteration,   \* the loop variable of Run
    llmCalls,    \* ChatCompletion requests made by Run
    session,     \* the session: Status, Messages, ToolResults
    sessionFile, \* the session as last written to <home>/.wink/sessions/<id>.json
    proposed,    \* choice.Message.ToolCalls of the current turn
    pending,     \* assistantMessage.ToolCalls of the current turn
    idx,         \* index in pending of the call being handled
    nproposed,   \* tool calls proposed by the model so far
    events,      \* log of Run: approval checks, executions, results, tool messages
    turnStart,   \* length of events when the current turn began
    runErr,      \* the error returned by Run, "" for nil
    fs,          \* the file system
    accessed,    \* the paths the tools have accessed
    lastExec,    \* the most recent direct Registry.Execute call and its outcome
    nexecs,      \* Registry.Execute calls made directly so far
    ctxDone,     \* the context given to Run has been cancelled
    sessionBytes, \* how much of the document sessionFile is in the session file:
                  \* "all", "none" (the file is empty), "some" (a proper prefix)
    configBytes,  \* how much of the document being written is in config.json
    configDoc,    \* auto_approval_rules of the document being written to config.json
    observed,     \* what the Load of another process of the program last returned
    nappended,    \* messages appended directly with ContextManager.AddMessage
    sessionsDir,  \* the files of <home>/.wink/sessions in directory order, each
                  \* named by the number of the run that created it
    archive,      \* the documents of these files; the one of the file of the
                  \* current session is sessionFile
    curFile,      \* the file of the current session, 0 if none was created
    continueSession, \* the continueSession argument of the current Run
    nruns,        \* further invocations of Run so far
    rpc,          \* position of WithRetry: idle, loop, wait, returned
    rcfg,         \* the RetryConfig given to WithRetry
    attempt,      \* the loop variable of WithRetry
    backoff,      \* the backoff of WithRetry, in seconds
    lastErr,      \* lastErr of WithRetry: the invocation of fn that returned it, 0 for nil
    outcomes,     \* for each invocation of fn so far, whether it succeeded
    retryRet,     \* what WithRetry returned
    timerFired,   \* the timer of time.After(backoff) has fired in the current wait
    links,        \* the symbolic links of the file system: at, to
    commandHistory, \* commandHistory.commands of the running process
    ran,          \* the commands run_in_terminal ran to an exit status, in order
    histMu,       \* CommandHistory.mu: the writer holding it ("" for none), the readers
    histMem,      \* the backing arrays allocated for CommandHistory.commands
    histSlice,    \* the slice header CommandHistory.commands: array, len, cap
    histProc,     \* the goroutines calling AddCommand and GetLast: position, locals
    histDone,     \* the commands of the AddCommand calls that have returned
    histObs,      \* what the GetLast calls returned and what their callers read
    startup,      \* the command line and environment of the process, and what
                  \* run made of them
    progress,     \* a ProgressIndicator, its spin goroutines and its caller
    cwd,          \* the directory the running invocation was started from
    cfgFile,      \* config.json with all its fields: what it held at first, what
                  \* it holds, how much of a write in progress has reached it
    savers        \* the processes that call ApprovalManager.Save: position, config

approvalVars == <<rules, diskRules, last, nchecks, nadded, nfail>>

agentVars ==
    <<pc, iteration, llmCalls, session, sessionFile, proposed, pending, idx, nproposed,
      events, turnStart, runErr>>

fsVars == <<fs, accessed, lastExec, nexecs>>

configVars == <<configBytes, configDoc, observed>>

dirVars == <<sessionsDir, archive, curFile, continueSession, nruns>>

retryVars == <<rpc, rcfg, attempt, backoff, lastErr, outcomes, retryRet, timerFired>>

\* the symbolic links and the shell commands
histVars == <<histMu, histMem, histSlice, histProc, histDone, histObs>>

saveVars == <<cfgFile, savers>>

worldVars == <<links, commandHistory, ran, histVars, startup, progress, cwd, saveVars>>

envVars == <<ctxDone, sessionBytes, configVars, nappended, dirVars, retryVars, worldVars>>

vars == <<approvalVars, agentVars, fsVars, envVars>>

NoCheck ==
    [tool |-> "", json |-> << >>, response |-> "", approved |-> FALSE, auto |-> FALSE,
     desc |-> "", err |-> FALSE, rule |-> 0, readFailed |-> FALSE]

\* the record of a CheckApproval call
CheckRecord(toolName, params, input, res) ==
    [tool |-> toolName, json |-> MarshalParams(params),
     response |-> IF res.prompted THEN PromptForApproval(input).response ELSE "",
     approved |-> res.approved, auto |-> res.auto, desc |-> res.desc, err |-> res.err,
     rule |-> res.rule, readFailed |-> res.prompted /\ PromptForApproval(input).err]

\* the outcomes of a write of the config file or the session file
WriteOutcomes == IF nfail < MaxWriteFailures THEN {TRUE, FALSE} ELSE {TRUE}

\* the working directory of the session: os.Getwd() of the process
WorkingDir == ProcessCwd

\* the file system at start: a file and a directory inside the working
\* directory, a file outside it
InitialFS ==
    [files |-> (<<SEP, "w", SEP, "f">> :> <<"x">>) @@ (<<SEP, "e">> :> <<"s">>),
     dirs  |-> {<<SEP>>, <<SEP, "w">>, <<SEP, "w", SEP, "d">>}]

NoExec ==
    [tool |-> "", params |-> << >>, err |-> NoErr, access |-> {},
     validated |-> FALSE, executed |-> FALSE]

NoLoad == [done |-> FALSE, err |-> "", rules |-> << >>]

NewSession ==
    [ID |-> 1, WorkingDir |-> ProcessCwd, Status |-> "active", Messages |-> << >>,
     ToolResults |-> << >>]

\* SessionManager.Create(workingDir, model): the session with a fresh ID
CreatedSession(id, workingDir) == [NewSession EXCEPT !.ID = id, !.WorkingDir = workingDir]

\* the directories the program is invoked from
InvocationDirs == {ProcessCwd, ProcessCwd \o <<SEP, "d">>}

\* the working directory executeToolCall gives the registry, taken from the
\* process instead of the session
ToolWorkingDirOfProcess(sess, dir) == dir

\* the working directory executeToolCall gives the registry
ToolWorkingDir(sess, dir) == sess.WorkingDir

Init ==
    /\ rules = << >>
    /\ diskRules = << >>
    /\ last = NoCheck
    /\ nchecks = 0
    /\ nadded = 0
    /\ nfail = 0
    /\ pc = "idle"
    /\ iteration = 0
    /\ llmCalls = 0
    /\ session = NewSession
    /\ sessionFile = NewSession
    /\ proposed = << >>
    /\ pending = << >>
    /\ idx = 0
    /\ nproposed = 0
    /\ events = << >>
    /\ turnStart = 0
    /\ runErr = ""
    /\ fs = InitialFS
    /\ accessed = {}
    /\ lastExec = NoExec
    /\ nexecs = 0
    /\ ctxDone = FALSE
    /\ sessionBytes = "all"
    /\ configBytes = "all"
    /\ configDoc = << >>
    /\ observed = NoLoad
    /\ nappended = 0
    /\ sessionsDir = << >>
    /\ archive = << >>
    /\ curFile = 0
    /\ continueSession = FALSE
    /\ nruns = 0
    /\ rpc = "idle"
    /\ rcfg = DefaultRetryConfig
    /\ attempt = 0
    /\ backoff = 0
    /\ lastErr = 0
    /\ outcomes = << >>
    /\ retryRet = NoReturn
    /\ timerFired = FALSE
    /\ links = {}
    /\ commandHistory = << >>
    /\ ran = << >>
    /\ histMu = [writer |-> "", readers |-> 0]
    /\ histMem = << >>
    /\ histSlice = [arr |-> 0, len |-> 0, cap |-> 0]
    /\ histProc = [p \in {"w1", "w2", "r1"} |->
                     [pc |-> "idle", hdr |-> [arr |-> 0, len |-> 0, cap |-> 0],
                      ret |-> [arr |-> 0, idx |-> 0], start |-> 0,
                      tail |-> [Command |-> << >>, ExitCode |-> 0, Stdout |-> << >>,
                                Stderr |-> << >>],
                      n |-> 0]]
    /\ histDone = << >>
    /\ histObs = << >>
    /\ startup = [done |-> FALSE]
    /\ progress = [made |-> FALSE, isTTY |-> FALSE, done |-> FALSE, spinners |-> 0,
                   stop |-> "idle", message |-> "m", printed |-> 0, frames |-> 0,
                   calls |-> 0]
    /\ cwd = ProcessCwd
    /\ cfgFile = [installed |-> FALSE, present |-> FALSE, bytes |-> "all",
                  orig |-> [settings |-> << >>, rules |-> << >>],
                  doc |-> [settings |-> << >>, rules |-> << >>]]
    /\ savers = [p \in {"A", "B"} |->
                   [pc |-> "idle", config |-> [settings |-> << >>, rules |-> << >>]]]

\* ------------------------------------------------------------------------
\* The approval engine driven directly (as the tests of the rule store do)
\* ------------------------------------------------------------------------
\* Tool.RequiresApproval() of the registered tools
RequiresApproval(toolName) == toolName # "terminal_last_command"

P1 == [path |-> Str(<<"a">>)]

\* (tool, parameters) of the calls: a path; the same map nested inside
\* another parameter; the same map with an extra field; a value with a regex
\* metacharacter; a value with a character that JSON escapes; another tool;
\* the tool that does not require approval
ApprovalCalls ==
    { <<"read_file", P1>>,
      <<"read_file", [extra |-> Raw(MarshalParams(P1))]>>,
      <<"read_file", [extra |-> Str(<<"x">>), path |-> Str(<<"a">>)]>>,
      <<"read_file", [path |-> Str(<<"a", ".", "b">>)]>>,
      <<"read_file", [path |-> Str(<<"a", QT, "b">>)]>>,
      <<"run_in_terminal", P1>>,
      <<"terminal_last_command", [extra |-> Str(<<"x">>)]>> }

\* patterns a user gives to AddRule: match-any-character, the empty pattern,
\* a fragment of a serialization, and a pattern that does not compile
ManualRules ==
    { <<"read_file", <<".">> >>, <<"read_file", << >> >>,
      <<"read_file", <<QT, "a", QT>> >>, <<"run_in_terminal", <<BS>> >> }

\* the iteration orders that matter to a call: escapeRegex runs only when
\* the user answers always
OrdersFor(input) ==
    IF PromptForApproval(input).response = "always" /\ ~PromptForApproval(input).err
    THEN RangeOrders
    ELSE {CHOOSE o \in RangeOrders : TRUE}

\* ApprovalWorkflow.CheckApproval(toolName, params)
ApprovalCheck ==
    /\ nchecks < MaxChecks
    /\ \E call \in ApprovalCalls, input \in PromptInputs, wr \in WriteOutcomes :
         /\ input = "a" => Len(rules) < MaxRules
         /\ \E order \in OrdersFor(input) :
           \E res \in {CheckApproval(rules, diskRules, call[1], call[2], input, order, wr)} :
              /\ rules' = res.rules
              /\ diskRules' = res.disk
              /\ last' = CheckRecord(call[1], call[2], input, res)
              /\ nfail' = IF res.wrote /\ ~wr THEN nfail + 1 ELSE nfail
              /\ ~res.wrote => wr
    /\ nchecks' = nchecks + 1
    /\ UNCHANGED <<nadded, agentVars, fsVars>>
    /\ UNCHANGED envVars

\* ApprovalManager.AddRule(toolName, pattern, description) called directly
ManualAddRule ==
    /\ nadded < MaxManual
    /\ Len(rules) < MaxRules
    /\ \E r \in ManualRules, wr \in WriteOutcomes :
         \E a \in {AddRule(rules, diskRules, r[1], r[2],
                          [prefix |-> "manual", tool |-> r[1], params |-> r[2]], wr)} :
            /\ rules' = a.rules
            /\ diskRules' = a.disk
            /\ nfail' = IF a.wrote /\ ~wr THEN nfail + 1 ELSE nfail
            /\ ~a.wrote => wr
    /\ nadded' = nadded + 1
    /\ UNCHANGED <<last, nchecks, agentVars, fsVars>>
    /\ UNCHANGED envVars

\* a later invocation of the program: NewApprovalManager loads the config file
Reload ==
    /\ pc \in {"idle", "done", "error"}
    /\ rules # LoadRules(diskRules)
    /\ rules' = LoadRules(diskRules)
    /\ UNCHANGED <<diskRules, last, nchecks, nadded, nfail, agentVars, fsVars>>
    /\ UNCHANGED envVars

NextApproval == ApprovalCheck \/ ManualAddRule \/ Reload

SpecApproval == Init /\ [][NextApproval]_vars

\* ------------------------------------------------------------------------
\* The config file written by one process while another process loads it
\* ------------------------------------------------------------------------
\* ApprovalManager.Load on a file of which only part has been written:
\* json.Unmarshal fails on an empty or truncated document
LoadFile(disk, bytes) ==
    IF bytes = "all"
    THEN [done |-> TRUE, err |-> "", rules |-> LoadRules(disk)]
    ELSE [done |-> TRUE, err |-> "failed to parse config file", rules |-> << >>]

\* CheckApproval up to the os.WriteFile of ApprovalManager.Save: if the call
\* saves (match bookkeeping, or a rule created on "always"), the file has
\* been opened with O_TRUNC and the document is still to be written
ApprovalCheckWriting ==
    /\ nchecks < MaxChecks
    /\ configBytes = "all"
    /\ \E call \in ApprovalCalls, input \in PromptInputs :
         /\ input = "a" => Len(rules) < MaxRules
         /\ \E order \in OrdersFor(input) :
           \E res \in {CheckApproval(rules, diskRules, call[1], call[2], input, order, TRUE)} :
              /\ rules' = res.rules
              /\ last' = CheckRecord(call[1], call[2], input, res)
              /\ configDoc' = IF res.wrote THEN res.disk ELSE configDoc
              /\ configBytes' = IF res.wrote THEN "none" ELSE configBytes
    /\ nchecks' = nchecks + 1
    /\ UNCHANGED <<diskRules, nadded, nfail, agentVars, fsVars, ctxDone, sessionBytes,
                   observed, nappended, dirVars, retryVars, worldVars>>

\* os.WriteFile goes on: part of the document, or the rest of it
ConfigWrite ==
    /\ configBytes # "all"
    /\ \E next \in (IF configBytes = "none" THEN {"some", "all"} ELSE {"all"}) :
         /\ configBytes' = next
         /\ diskRules' = IF next = "all" THEN configDoc ELSE diskRules
    /\ UNCHANGED <<rules, last, nchecks, nadded, nfail, agentVars, fsVars, ctxDone,
                   sessionBytes, configDoc, observed, nappended, dirVars, retryVars, worldVars>>

\* another process of the program starts: NewApprovalManager loads config.json
OtherLoad ==
    /\ observed' = LoadFile(diskRules, configBytes)
    /\ observed' # observed
    /\ UNCHANGED <<approvalVars, agentVars, fsVars, ctxDone, sessionBytes, configBytes,
                   configDoc, nappended, dirVars, retryVars, worldVars>>

NextConfigRace == ApprovalCheckWriting \/ ConfigWrite \/ OtherLoad

SpecConfigRace == Init /\ [][NextConfigRace]_vars

\* ------------------------------------------------------------------------
\* Agent.Run, one action per position of the loop
\* ------------------------------------------------------------------------
Event(kind, id, approved, err) ==
    [kind |-> kind, id |-> id, approved |-> approved, err |-> err]

\* Run up to the loop: create the session, add the user message
StartRun ==
    /\ pc = "idle"
    /\ \E wr \in WriteOutcomes :
         /\ nfail' = IF wr THEN nfail ELSE nfail + 1
         /\ IF wr
            THEN /\ session' = [NewSession EXCEPT !.Messages =
                                  AddMessage(<< >>, Message("user", <<"prompt">>, << >>, 0))]
                 /\ sessionFile' = NewSession
                 /\ pc' = "llm"
                 /\ runErr' = ""
                 /\ sessionsDir' = <<1>>
                 /\ archive' = <<NewSession>>
                 /\ curFile' = 1
            ELSE /\ pc' = "error"
                 /\ runErr' = "failed to create session"
                 /\ UNCHANGED <<session, sessionFile, sessionsDir, archive, curFile>>
    /\ iteration' = 0
    /\ UNCHANGED <<rules, diskRules, last, nchecks, nadded, llmCalls, proposed, pending,
                   idx, nproposed, events, turnStart, fsVars>>
    /\ UNCHANGED <<ctxDone, sessionBytes, configVars, nappended, continueSession, nruns,
                   retryVars, worldVars>>

\* one ChatCompletion request and the handling of its response, up to the
\* assistant message
LLMTurnOf(responses) ==
    /\ pc = "llm"
    /\ \E resp \in responses :
         /\ llmCalls' = llmCalls + 1
         /\ IF resp.err \/ resp.choices = 0
            THEN /\ pc' = "error"
                 /\ runErr' = IF resp.err THEN "LLM request failed"
                              ELSE "no response from LLM"
                 /\ UNCHANGED <<session, proposed, pending, idx, nproposed, turnStart>>
            ELSE \E parsed \in {ParseToolCalls(resp.toolCalls)} :
                 /\ session' = [session EXCEPT !.Messages =
                                  AddMessage(@, Message("assistant", resp.content,
                                                        parsed, 0))]
                 /\ proposed' = resp.toolCalls
                 /\ pending' = parsed
                 /\ idx' = 1
                 /\ nproposed' = nproposed + Len(resp.toolCalls)
                 /\ turnStart' = Len(events)
                 /\ pc' = IF parsed = << >> THEN "finish" ELSE "call"
                 /\ UNCHANGED runErr
    /\ UNCHANGED <<approvalVars, iteration, sessionFile, events, fsVars>>
    /\ UNCHANGED envVars

\* one iteration of the loop over assistantMessage.ToolCalls: approval check,
\* execution, tool result and tool message of pending[idx]
HandleCallOf(inputs, ios) ==
    /\ pc = "call"
    /\ \E input \in inputs, wr \in WriteOutcomes, io \in ios :
         /\ input = "a" => Len(rules) < MaxRules
         /\ \E order \in OrdersFor(input) :
           \E chk \in {CheckApproval(rules, diskRules, pending[idx].ToolName,
                                     pending[idx].Parameters, input, order, wr)} :
           \E x \in {executeToolCall(pending[idx], chk, ToolWorkingDir(session, cwd), fs, io)} :
           \E toolCall \in {pending[idx]}, result \in {RunResult(pending[idx], x)} :
              /\ ~chk.wrote => wr
              /\ ~x.executed => io
              /\ rules' = chk.rules
              /\ diskRules' = chk.disk
              /\ last' = CheckRecord(toolCall.ToolName, toolCall.Parameters, input, chk)
              /\ nfail' = IF chk.wrote /\ ~wr THEN nfail + 1 ELSE nfail
              /\ fs' = x.fs
              /\ accessed' = accessed \cup x.access
              /\ session' = [session EXCEPT
                    !.ToolResults = AddToolResult(@, result),
                    !.Messages = AddMessage(@, Message("tool", result.Output, << >>,
                                                       result.ToolCallID))]
              /\ events' = events
                    \o <<Event("check", toolCall.ID, chk.approved, chk.err)>>
                    \o (IF x.executed THEN <<Event("exec", toolCall.ID, FALSE, FALSE)>>
                        ELSE << >>)
                    \o <<Event("result", result.ToolCallID, FALSE, ~result.Success),
                         Event("message", result.ToolCallID, FALSE, FALSE)>>
    /\ idx' = idx + 1
    /\ pc' = IF idx < Len(pending) THEN "call" ELSE "save"
    /\ UNCHANGED <<nchecks, nadded, iteration, llmCalls, sessionFile, proposed, pending,
                   nproposed, turnStart, runErr, lastExec, nexecs>>
    /\ UNCHANGED envVars

\* the end of an iteration: save the session, step the loop variable
SaveIteration ==
    /\ pc = "save"
    /\ \E wr \in WriteOutcomes :
         /\ sessionFile' = SessionSave(session, sessionFile, wr)
         /\ nfail' = IF wr THEN nfail ELSE nfail + 1
    /\ iteration' = iteration + 1
    /\ pc' = IF LoopContinues(iteration + 1) THEN "llm" ELSE "finish"
    /\ UNCHANGED <<rules, diskRules, last, nchecks, nadded, llmCalls, session, proposed,
                   pending, idx, nproposed, events, turnStart, runErr, fsVars>>
    /\ UNCHANGED envVars

\* Run after the loop: mark the session completed, save it, return nil
Finish ==
    /\ pc = "finish"
    /\ session' = [session EXCEPT !.Status = "completed"]
    /\ \E wr \in WriteOutcomes :
         /\ sessionFile' = SessionSave(session', sessionFile, wr)
         /\ nfail' = IF wr THEN nfail ELSE nfail + 1
    /\ pc' = "done"
    /\ UNCHANGED <<rules, diskRules, last, nchecks, nadded, iteration, llmCalls, proposed,
                   pending, idx, nproposed, events, turnStart, runErr, fsVars>>
    /\ UNCHANGED envVars

\* the responses of a model that proposes at most MaxCalls calls in a run,
\* at most MaxTurnCalls of them in one turn
LLMResponses ==
    PlainResponses \cup
    UNION { CallResponses(LLMCalls, nproposed, k) :
              k \in { j \in 1..MaxTurnCalls : nproposed + j <= MaxCalls } }

LLMTurn == LLMTurnOf(LLMResponses)

HandleCall == HandleCallOf(PromptInputs, BOOLEAN)

Next == StartRun \/ LLMTurn \/ HandleCall \/ SaveIteration \/ Finish \/ Reload

Spec == Init /\ [][Next]_vars

\* ------------------------------------------------------------------------
\* The agent with a model that may propose a tool call on every turn
\* ------------------------------------------------------------------------
CapResponses ==
    PlainResponses \cup
    CallResponses({<<"read_file", MarshalParams([path |-> Str(<<"f">>)])>>}, nproposed, 1)

LLMTurnCap == LLMTurnOf(CapResponses)

HandleCallCap == HandleCallOf({"y", "n"}, {TRUE})

NextCap == StartRun \/ LLMTurnCap \/ HandleCallCap \/ SaveIteration \/ Finish

SpecCap == Init /\ [][NextCap]_vars

\* ------------------------------------------------------------------------
\* The agent under a context that the caller may cancel
\* ------------------------------------------------------------------------
\* the caller cancels the context given to Run while the loop is running
Cancel ==
    /\ pc \in {"llm", "call", "save"}
    /\ ~ctxDone
    /\ ctxDone' = TRUE
    /\ UNCHANGED <<approvalVars, agentVars, fsVars, sessionBytes, configVars, nappended,
                   dirVars, retryVars, worldVars>>

\* ChatCompletion under ctx: a request made with a cancelled context
\* returns the context's error
CancelResponses ==
    IF ctxDone THEN {Response(TRUE, 0, << >>, << >>)} ELSE CapResponses

LLMTurnCancel == LLMTurnOf(CancelResponses)

NextCancel ==
    StartRun \/ Cancel \/ LLMTurnCancel \/ HandleCallCap \/ SaveIteration \/ Finish

SpecCancel == Init /\ [][NextCancel]_vars

\* ------------------------------------------------------------------------
\* The agent in a process that may be killed
\* ------------------------------------------------------------------------
\* the session Save is about to write: at the end of an iteration the
\* session, after the loop the session marked completed
SessionToSave ==
    IF pc = "finish" THEN [session EXCEPT !.Status = "completed"] ELSE session

\* what os.WriteFile leaves when the process dies inside it, after it has
\* opened the file with O_TRUNC: an empty file, or a prefix of the data
TornWrites == {"none", "some"}

\* the process is killed between two file operations
Crash ==
    /\ pc \in {"llm", "call", "save", "finish"}
    /\ pc' = "crashed"
    /\ UNCHANGED <<approvalVars, iteration, llmCalls, session, sessionFile, proposed,
                   pending, idx, nproposed, events, turnStart, runErr, fsVars, envVars>>

\* the process is killed inside the os.WriteFile of SessionManager.Save
CrashInSave ==
    /\ pc \in {"save", "finish"}
    /\ \E torn \in TornWrites : sessionBytes' = torn
    /\ sessionFile' = SessionToSave
    /\ pc' = "crashed"
    /\ UNCHANGED <<approvalVars, iteration, llmCalls, session, proposed, pending, idx,
                   nproposed, events, turnStart, runErr, fsVars, ctxDone, configVars,
                   nappended, dirVars, retryVars, worldVars>>

NextCrash ==
    StartRun \/ LLMTurnCap \/ HandleCallCap \/ SaveIteration \/ Finish \/ Crash
        \/ CrashInSave

SpecCrash == Init /\ [][NextCrash]_vars

\* ------------------------------------------------------------------------
\* The context manager driven directly (as the pruning test does)
\* ------------------------------------------------------------------------
\* contextManager.AddMessage(session, message); the messages are numbered
\* in the order in which they are appended
AppendMessage ==
    /\ nappended < MaxAppends
    /\ session' = [session EXCEPT !.Messages =
                      AddMessage(@, Message("user", <<"m">>, << >>, nappended + 1))]
    /\ nappended' = nappended + 1
    /\ UNCHANGED <<approvalVars, pc, iteration, llmCalls, sessionFile, proposed, pending,
                   idx, nproposed, events, turnStart, runErr, fsVars, ctxDone,
                   sessionBytes, configVars, dirVars, retryVars, worldVars>>

NextContext == AppendMessage

SpecContext == Init /\ [][NextContext]_vars

\* ------------------------------------------------------------------------
\* Run invoked again, with or without continue
\* ------------------------------------------------------------------------
\* info.ModTime() of a session file.  A process writes only the file of the
\* session it runs, and a run either creates a file or continues the one
\* GetLatest returns, so the files were last written in the order in which
\* they were created.
ModTime(file) == file

\* GetLatest that returns the first entry of the directory
GetLatestFirstEntry(entries, i, latestFile, latestTime) == entries[1]

RECURSIVE GetLatestFrom(_, _, _, _)
\* the loop of SessionManager.GetLatest from entry i on: the file with the
\* latest modification time, 0 if there is none
GetLatestFrom(entries, i, latestFile, latestTime) ==
    IF i > Len(entries) THEN latestFile
    ELSE IF ModTime(entries[i]) > latestTime
    THEN GetLatestFrom(entries, i + 1, entries[i], ModTime(entries[i]))
    ELSE GetLatestFrom(entries, i + 1, latestFile, latestTime)

\* SessionManager.Load: the document of a session file
FileDoc(file) == IF file = curFile THEN sessionFile ELSE archive[file]

\* the documents of the directory once the current session is left
Archived == IF curFile = 0 THEN archive ELSE [archive EXCEPT ![curFile] = sessionFile]

\* the directory with a new file: its name is a fresh UUID, so it may be
\* listed at any position
Listings(entries, file) ==
    { SubSeq(entries, 1, p) \o <<file>> \o SubSeq(entries, p + 1, Len(entries)) :
        p \in 0..Len(entries) }

\* Run up to the loop with continueSession: GetLatest, add the user message
ContinueRun ==
    /\ continueSession' = TRUE
    /\ IF sessionsDir = << >>
       THEN /\ pc' = "error"
            /\ runErr' = "failed to load previous session"
            /\ UNCHANGED <<session, sessionFile, archive, curFile>>
       ELSE \E latest \in {GetLatestFrom(sessionsDir, 1, 0, 0)} :
            /\ session' = [FileDoc(latest) EXCEPT !.Messages =
                             AddMessage(@, Message("user", <<"next">>, << >>, 0))]
            /\ sessionFile' = FileDoc(latest)
            /\ archive' = Archived
            /\ curFile' = latest
            /\ pc' = "llm"
            /\ runErr' = ""
    /\ UNCHANGED <<nfail, sessionsDir>>

\* Run up to the loop without continueSession: Create, add the user message
CreateRun ==
    /\ continueSession' = FALSE
    /\ \E wr \in WriteOutcomes :
         /\ nfail' = IF wr THEN nfail ELSE nfail + 1
         /\ IF wr
            THEN /\ session' = [CreatedSession(Len(archive) + 1, cwd') EXCEPT !.Messages =
                                  AddMessage(<< >>, Message("user", <<"next">>, << >>, 0))]
                 /\ sessionFile' = CreatedSession(Len(archive) + 1, cwd')
                 /\ archive' = Append(Archived, CreatedSession(Len(archive) + 1, cwd'))
                 /\ curFile' = Len(archive) + 1
                 /\ sessionsDir' \in Listings(sessionsDir, Len(archive) + 1)
                 /\ pc' = "llm"
                 /\ runErr' = ""
            ELSE /\ pc' = "error"
                 /\ runErr' = "failed to create session"
                 /\ UNCHANGED <<session, sessionFile, archive, curFile, sessionsDir>>

\* the program is invoked again: Run up to the loop
StartRunAgain ==
    /\ nruns < MaxRuns
    /\ cwd' \in InvocationDirs
    /\ \/ pc = "idle" /\ ContinueRun
       \/ pc \in {"done", "error"} /\ (ContinueRun \/ CreateRun)
    /\ iteration' = 0
    /\ nruns' = nruns + 1
    /\ UNCHANGED <<rules, diskRules, last, nchecks, nadded, llmCalls, proposed, pending,
                   idx, nproposed, events, turnStart, fsVars, ctxDone, sessionBytes,
                   configVars, nappended, retryVars, links, commandHistory, ran,
                   histVars, startup, progress, saveVars>>

\* the responses of a model that proposes at most MaxCalls calls over the runs
ContinueResponses ==
    PlainResponses \cup
    (IF nproposed < MaxCalls
     THEN CallResponses({<<"read_file", MarshalParams([path |-> Str(<<"f">>)])>>},
                        nproposed, 1)
     ELSE {})

LLMTurnContinue == LLMTurnOf(ContinueResponses)

NextContinue ==
    StartRun \/ StartRunAgain \/ LLMTurnContinue \/ HandleCallCap \/ SaveIteration
        \/ Finish

SpecContinue == Init /\ [][NextContinue]_vars

\* ------------------------------------------------------------------------
\* WithRetry, one action per position of its loop
\* ------------------------------------------------------------------------
\* WithRetry(ctx, config, fn) up to the loop
RetryStart ==
    /\ rpc = "idle"
    /\ \E config \in RetryConfigs :
         /\ rcfg' = config
         /\ backoff' = config.InitialBackoff
    /\ attempt' = 0
    /\ lastErr' = 0
    /\ rpc' = "loop"
    /\ UNCHANGED <<approvalVars, agentVars, fsVars, ctxDone, sessionBytes, configVars,
                   nappended, dirVars, worldVars, outcomes, retryRet, timerFired>>

\* one pass of the loop up to the wait: fn is invoked and succeeds or fails;
\* a failure that is not the last starts the timer of time.After(backoff)
RetryAttempt ==
    /\ rpc = "loop"
    /\ IF ~RetryLoopContinues(attempt, rcfg)
       THEN /\ rpc' = "returned"
            /\ retryRet' = Return("exceeded", lastErr)
            /\ UNCHANGED <<lastErr, outcomes>>
       ELSE \E ok \in BOOLEAN :
            /\ outcomes' = Append(outcomes, ok)
            /\ IF ok
               THEN /\ rpc' = "returned"
                    /\ retryRet' = Return("nil", 0)
                    /\ UNCHANGED lastErr
               ELSE /\ lastErr' = Len(outcomes) + 1
                    /\ IF IsLastAttempt(attempt, rcfg)
                       THEN /\ rpc' = "returned"
                            /\ retryRet' = Return("exceeded", Len(outcomes) + 1)
                       ELSE /\ rpc' = "wait"
                            /\ UNCHANGED retryRet
    /\ timerFired' = FALSE
    /\ UNCHANGED <<approvalVars, agentVars, fsVars, ctxDone, sessionBytes, configVars,
                   nappended, dirVars, worldVars, rcfg, attempt, backoff>>

\* the backoff elapses while WithRetry is blocked in the select; a select that
\* the closed Done channel has already woken is not woken again by the timer
RetryTimer ==
    /\ rpc = "wait"
    /\ ~ctxDone
    /\ ~timerFired
    /\ timerFired' = TRUE
    /\ UNCHANGED <<approvalVars, agentVars, fsVars, ctxDone, sessionBytes, configVars,
                   nappended, dirVars, worldVars, rpc, rcfg, attempt, backoff, lastErr, outcomes,
                   retryRet>>

\* the select of WithRetry: the context is done, or the backoff has elapsed
RetryWait ==
    /\ rpc = "wait"
    /\ \E c \in SelectReady(ctxDone, timerFired) :
         IF c = "done"
         THEN /\ rpc' = "returned"
              /\ retryRet' = Return("cancelled", 0)
              /\ UNCHANGED <<attempt, backoff>>
         ELSE /\ backoff' = NextBackoff(backoff, rcfg)
              /\ attempt' = attempt + 1
              /\ rpc' = "loop"
              /\ UNCHANGED retryRet
    /\ UNCHANGED <<approvalVars, agentVars, fsVars, ctxDone, sessionBytes, configVars,
                   nappended, dirVars, worldVars, rcfg, lastErr, outcomes, timerFired>>

\* the caller cancels the context given to WithRetry
RetryCancel ==
    /\ rpc \in {"loop", "wait"}
    /\ ~ctxDone
    /\ ctxDone' = TRUE
    /\ UNCHANGED <<approvalVars, agentVars, fsVars, sessionBytes, configVars, nappended,
                   dirVars, retryVars, worldVars>>

NextRetry == RetryStart \/ RetryAttempt \/ RetryTimer \/ RetryWait \/ RetryCancel

SpecRetry == Init /\ [][NextRetry]_vars

\* ------------------------------------------------------------------------
\* The registry driven directly on the file tools
\* ------------------------------------------------------------------------
PathInputs ==
    { <<"a">>, <<"f">>, <<"d">>, <<".">>, <<".", ".", SEP, "x">>, <<SEP, "e">>,
      <<"d", SEP, ".", ".", SEP, ".", ".", SEP, "e">>, <<".", ".", "a">>,
      <<SEP, "w", SEP, "f">>, <<SEP, "w", "x">> }

\* the parameter maps given to a tool: well formed, and with a required
\* parameter missing or empty
PathCalls(toolName) ==
    CASE toolName = "create_file" ->
           { [content |-> Str(c), path |-> Str(p)] :
               c \in {<<"x">>, <<"x", "b", "x">>}, p \in PathInputs }
           \cup { [path |-> Str(p)] : p \in PathInputs }
      [] toolName = "replace_string_in_file" ->
           { [new_string |-> Str(<<"y">>), old_string |-> Str(<<"x">>), path |-> Str(p)] :
               p \in PathInputs }
           \cup { [new_string |-> Str(<<"y">>), old_string |-> Str(<< >>), path |-> Str(p)] :
                    p \in PathInputs }
      [] toolName = "file_search" ->
           { [base_path |-> Str(p), pattern |-> Str(<<"*">>)] : p \in PathInputs }
           \cup { [base_path |-> Str(p)] : p \in PathInputs }
           \cup { [pattern |-> Str(<<"*">>)] }
      [] toolName = "list_dir" ->
           { [path |-> Str(p)] : p \in PathInputs } \cup { [path |-> Raw(<<"1">>)] }
      [] OTHER -> { [path |-> Str(p)] : p \in PathInputs }

\* Registry.Execute(ctx, toolName, params, workingDir)
RegistryCall ==
    /\ nexecs < MaxExecs
    /\ \E toolName \in RegisteredTools \cup {"nope"}, io \in BOOLEAN :
         \E params \in PathCalls(toolName) :
           \E r \in {RegistryExecute(toolName, params, WorkingDir, fs, io)} :
              /\ ~r.executed => io
              /\ fs' = r.fs
              /\ accessed' = accessed \cup r.access
              /\ lastExec' = [tool |-> toolName, params |-> params, err |-> r.err,
                              access |-> r.access, validated |-> r.validated,
                              executed |-> r.executed]
    /\ nexecs' = nexecs + 1
    /\ UNCHANGED <<approvalVars, agentVars>>
    /\ UNCHANGED envVars

NextPath == RegistryCall

SpecPath == Init /\ [][NextPath]_vars

\* ------------------------------------------------------------------------
\* The read-only file tools on a file system with symbolic links: the
\* operating system follows a link wherever a path passes through it
\* ------------------------------------------------------------------------
\* the links that can be made: to a file outside the working directory, to a
\* file inside it, and from a subdirectory to the root of the file system
Links ==
    { [at |-> <<SEP, "w", SEP, "l">>, to |-> <<SEP, "e">>],
      [at |-> <<SEP, "w", SEP, "m">>, to |-> <<SEP, "w", SEP, "f">>],
      [at |-> <<SEP, "w", SEP, "d", SEP, "n">>, to |-> <<SEP>>] }

LinkPathInputs ==
    { <<"l">>, <<"m">>, <<"f">>, <<"d">>, <<"x">>, <<"d", SEP, "n">>,
      <<"d", SEP, "n", SEP, "e">>, <<"d", SEP, "n", SEP, "w", SEP, "l">>,
      <<".", ".", SEP, "e">>, <<SEP, "e">> }

\* the path passes through the link
LinkApplies(l, p) == p = l.at \/ HasPrefix(p, l.at \o <<SEP>>)

\* the path with the first link it passes through replaced by its target
FollowOnce(ls, p) ==
    IF \E l \in ls : LinkApplies(l, p)
    THEN Clean((CHOOSE l \in ls : LinkApplies(l, p)).to \o <<SEP>> \o
               SubSeq(p, Len((CHOOSE l \in ls : LinkApplies(l, p)).at) + 1, Len(p)))
    ELSE p

\* the file or directory the operating system reaches by the path
Follow(ls, p) == FollowOnce(ls, FollowOnce(ls, FollowOnce(ls, p)))

\* the absolute paths the calls can name
LinkPaths ==
    { IF IsAbs(p) THEN Clean(p) ELSE Join(WorkingDir, p) : p \in LinkPathInputs }
    \cup DOMAIN InitialFS.files \cup InitialFS.dirs

\* the file system as os.Stat, os.ReadFile and os.ReadDir see it by path
Seen(f, ls) ==
    [files |-> [q \in {q \in LinkPaths : Follow(ls, q) \in DOMAIN f.files} |->
                  f.files[Follow(ls, q)]],
     dirs  |-> {q \in LinkPaths : Follow(ls, q) \in f.dirs}]

\* a symbolic link is made in the working directory (ln -s)
MakeSymlink ==
    /\ \E l \in Links \ links : links' = links \cup {l}
    /\ UNCHANGED <<approvalVars, agentVars, fsVars, ctxDone, sessionBytes, configVars,
                   nappended, dirVars, retryVars, commandHistory, ran, histVars, startup, progress, cwd, saveVars>>

\* Registry.Execute of read_file or list_dir on a path given by the model
LinkedCall ==
    /\ nexecs < MaxExecs
    /\ \E toolName \in {"read_file", "list_dir"}, io \in BOOLEAN, p \in LinkPathInputs :
         \E r \in {RegistryExecute(toolName, [path |-> Str(p)], WorkingDir,
                                    Seen(fs, links), io)} :
            /\ ~r.executed => io
            /\ accessed' = accessed \cup {Follow(links, a) : a \in r.access}
            /\ lastExec' = [tool |-> toolName, params |-> [path |-> Str(p)],
                            err |-> r.err, access |-> r.access,
                            validated |-> r.validated, executed |-> r.executed]
    /\ nexecs' = nexecs + 1
    /\ UNCHANGED <<approvalVars, agentVars, fs, ctxDone, sessionBytes, configVars,
                   nappended, dirVars, retryVars, worldVars>>

NextLink == MakeSymlink \/ LinkedCall

SpecLink == Init /\ [][NextLink]_vars

\* ------------------------------------------------------------------------
\* The agent with the terminal tools registered
\* ------------------------------------------------------------------------
\* the calls of the terminal tools the model proposes: two commands, a blank
\* command, a timeout out of range, the query of the last command
TerminalCalls ==
    { <<"run_in_terminal", MarshalParams([command |-> Str(<<"c">>)])>>,
      <<"run_in_terminal", MarshalParams([command |-> Str(<<"d">>)])>>,
      <<"run_in_terminal", MarshalParams([command |-> Str(<<" ">>)])>>,
      <<"run_in_terminal",
        MarshalParams([command |-> Str(<<"c">>), timeout_seconds |-> Raw(<<"0">>)])>>,
      <<"terminal_last_command", MarshalParams([extra |-> Str(<<"x">>)])>> }

\* the responses of a model that proposes one terminal call a turn, at most
\* MaxTerminalCalls in a run, and then answers with a text
TerminalResponses ==
    { Response(FALSE, 1, <<"text">>, << >>) } \cup
    (IF nproposed < MaxTerminalCalls THEN CallResponses(TerminalCalls, nproposed, 1)
     ELSE {})

\* what the user answers to the prompts for terminal calls
TerminalInputs == {"y", "n", "EOF"}

LLMTurnTerminal == LLMTurnOf(TerminalResponses)

\* one iteration of the loop over assistantMessage.ToolCalls for a call of a
\* terminal tool: approval check, execution, tool result and tool message
HandleTerminalCall ==
    /\ pc = "call"
    /\ \E input \in TerminalInputs, out \in RunOutcomes :
         \E chk \in {CheckApproval(rules, diskRules, pending[idx].ToolName,
                                   pending[idx].Parameters, input,
                                   CHOOSE o \in RangeOrders : TRUE, TRUE)} :
         \E t \in {RegistryExecuteTerminal(pending[idx].ToolName, pending[idx].Parameters,
                                           fs, commandHistory, out)} :
         \E x \in {executeChecked(pending[idx], chk, fs, t.reg)} :
         \E toolCall \in {pending[idx]}, result \in {RunResult(pending[idx], x)} :
            /\ (x.executed /\ toolCall.ToolName = "run_in_terminal") \/ out.kind = "error"
            /\ rules' = chk.rules
            /\ diskRules' = chk.disk
            /\ last' = CheckRecord(toolCall.ToolName, toolCall.Parameters, input, chk)
            /\ commandHistory' = IF x.called THEN t.commands ELSE commandHistory
            /\ ran' = IF x.executed /\ toolCall.ToolName = "run_in_terminal"
                         /\ out.kind = "exit"
                      THEN Append(ran, [Command |-> toolCall.Parameters["command"].v,
                                        ExitCode |-> out.code])
                      ELSE ran
            /\ session' = [session EXCEPT
                  !.ToolResults = AddToolResult(@, result),
                  !.Messages = AddMessage(@, Message("tool", result.Output, << >>,
                                                     result.ToolCallID))]
            /\ events' = events
                  \o <<Event("check", toolCall.ID, chk.approved, chk.err)>>
                  \o (IF x.executed THEN <<Event("exec", toolCall.ID, FALSE, FALSE)>>
                      ELSE << >>)
                  \o <<Event("result", result.ToolCallID, FALSE, ~result.Success),
                       Event("message", result.ToolCallID, FALSE, FALSE)>>
    /\ idx' = idx + 1
    /\ pc' = IF idx < Len(pending) THEN "call" ELSE "save"
    /\ UNCHANGED <<nchecks, nadded, nfail, iteration, llmCalls, sessionFile, proposed,
                   pending, nproposed, turnStart, runErr, fsVars, ctxDone, sessionBytes,
                   configVars, nappended, dirVars, retryVars, links, histVars, startup, progress, cwd, saveVars>>

NextTerminal ==
    StartRun \/ LLMTurnTerminal \/ HandleTerminalCall \/ SaveIteration \/ Finish

SpecTerminal == Init /\ [][NextTerminal]_vars

\* ------------------------------------------------------------------------
\* CommandHistory called from several goroutines: the slice header, its
\* backing arrays and the RWMutex, one action per memory access
\* ------------------------------------------------------------------------
HistoryWriters == {"w1", "w2"}
HistoryReaders == {"r1"}

\* the zero value of ExecutedCommand, in the unused capacity of an array
ZeroCommand == ExecutedCommand(<< >>, 0, << >>, << >>)

NilSlice == [arr |-> 0, len |-> 0, cap |-> 0]
NilPointer == [arr |-> 0, idx |-> 0]

IdleProc ==
    [pc |-> "idle", hdr |-> NilSlice, ret |-> NilPointer, start |-> 0,
     tail |-> ZeroCommand, n |-> 0]

\* sync.RWMutex: Lock waits for the writer and the readers, RLock for the writer
CanLockAlways(mu) == TRUE

CanLock(mu) == mu.writer = "" /\ mu.readers = 0

CanRLock(mu) == mu.writer = ""

\* the elements of the slice
SliceElements(mem, sl) == IF sl.len = 0 THEN << >> ELSE SubSeq(mem[sl.arr], 1, sl.len)

\* the capacity append grows a full slice to
GrownCap(cap) == IF cap = 0 THEN 1 ELSE 2 * cap

\* the memory after append(sl, cmd): in place when there is capacity, else
\* in a new array that holds a copy of the elements
AppendMem(mem, sl, cmd) ==
    IF sl.len < sl.cap
    THEN [mem EXCEPT ![sl.arr][sl.len + 1] = cmd]
    ELSE Append(mem, SliceElements(mem, sl) \o <<cmd>> \o
                     [k \in 1..(GrownCap(sl.cap) - sl.len - 1) |-> ZeroCommand])

\* the slice header append(sl, cmd) returns
AppendSlice(mem, sl) ==
    IF sl.len < sl.cap THEN [sl EXCEPT !.len = sl.len + 1]
    ELSE [arr |-> Len(mem) + 1, len |-> sl.len + 1, cap |-> GrownCap(sl.cap)]

\* AddCommand: h.mu.Lock()
HistLock(w) ==
    /\ histProc[w].pc = "idle"
    /\ histProc[w].n < MaxHistoryCalls
    /\ CanLock(histMu)
    /\ histMu' = [histMu EXCEPT !.writer = w]
    /\ histProc' = [histProc EXCEPT ![w].pc = "locked"]
    /\ UNCHANGED <<histMem, histSlice, histDone, histObs>>

\* AddCommand: the read of h.commands for append
HistLoad(w) ==
    /\ histProc[w].pc = "locked"
    /\ histProc' = [histProc EXCEPT ![w].pc = "loaded", ![w].hdr = histSlice]
    /\ UNCHANGED <<histMu, histMem, histSlice, histDone, histObs>>

\* AddCommand: append writes the element
HistWrite(w) ==
    /\ histProc[w].pc = "loaded"
    /\ histMem' = AppendMem(histMem, histProc[w].hdr,
                            ExecutedCommand(<<w>>, histProc[w].n + 1, << >>, << >>))
    /\ histProc' = [histProc EXCEPT ![w].pc = "written",
                                     ![w].hdr = AppendSlice(histMem, histProc[w].hdr)]
    /\ UNCHANGED <<histMu, histSlice, histDone, histObs>>

\* AddCommand: the assignment to h.commands
HistAssign(w) ==
    /\ histProc[w].pc = "written"
    /\ histSlice' = histProc[w].hdr
    /\ histProc' = [histProc EXCEPT ![w].pc = "assigned"]
    /\ UNCHANGED <<histMu, histMem, histDone, histObs>>

\* AddCommand: the deferred h.mu.Unlock() and the return
HistUnlock(w) ==
    /\ histProc[w].pc = "assigned"
    /\ histMu' = [histMu EXCEPT !.writer = IF @ = w THEN "" ELSE @]
    /\ histDone' = Append(histDone, ExecutedCommand(<<w>>, histProc[w].n + 1, << >>, << >>))
    /\ histProc' = [histProc EXCEPT ![w].pc = "idle", ![w].n = @ + 1]
    /\ UNCHANGED <<histMem, histSlice, histObs>>

\* a goroutine calls GetLast
HistCall(r) ==
    /\ histProc[r].pc = "idle"
    /\ histProc[r].n < MaxHistoryCalls
    /\ histProc' = [histProc EXCEPT ![r].pc = "called", ![r].start = Len(histDone)]
    /\ UNCHANGED <<histMu, histMem, histSlice, histDone, histObs>>

\* GetLast: h.mu.RLock()
HistRLock(r) ==
    /\ histProc[r].pc = "called"
    /\ CanRLock(histMu)
    /\ histMu' = [histMu EXCEPT !.readers = @ + 1]
    /\ histProc' = [histProc EXCEPT ![r].pc = "rlocked"]
    /\ UNCHANGED <<histMem, histSlice, histDone, histObs>>

\* GetLast: the test of len(h.commands) and the address of the last element
HistRead(r) ==
    /\ histProc[r].pc = "rlocked"
    /\ histProc' = [histProc EXCEPT
          ![r].pc = "read",
          ![r].ret = IF histSlice.len = 0 THEN NilPointer
                     ELSE [arr |-> histSlice.arr, idx |-> histSlice.len],
          ![r].tail = IF histSlice.len = 0 THEN ZeroCommand
                      ELSE histMem[histSlice.arr][histSlice.len]]
    /\ UNCHANGED <<histMu, histMem, histSlice, histDone, histObs>>

\* GetLast: the deferred h.mu.RUnlock() and the return
HistRUnlock(r) ==
    /\ histProc[r].pc = "read"
    /\ histMu' = [histMu EXCEPT !.readers = @ - 1]
    /\ histProc' = [histProc EXCEPT ![r].pc = "returned"]
    /\ UNCHANGED <<histMem, histSlice, histDone, histObs>>

\* the caller of GetLast reads the command through the pointer it got
HistDeref(r) ==
    /\ histProc[r].pc = "returned"
    /\ histObs' = Append(histObs,
          [nil |-> histProc[r].ret = NilPointer,
           start |-> histProc[r].start,
           tail |-> histProc[r].tail,
           idx |-> histProc[r].ret.idx,
           len |-> histSlice.len,
           value |-> IF histProc[r].ret = NilPointer THEN ZeroCommand
                     ELSE histMem[histProc[r].ret.arr][histProc[r].ret.idx]])
    /\ histProc' = [histProc EXCEPT ![r].pc = "idle", ![r].n = @ + 1]
    /\ UNCHANGED <<histMu, histMem, histSlice, histDone>>

\* a step of a goroutine that calls AddCommand
HistoryWriter ==
    /\ \E w \in HistoryWriters :
         HistLock(w) \/ HistLoad(w) \/ HistWrite(w) \/ HistAssign(w) \/ HistUnlock(w)
    /\ UNCHANGED <<approvalVars, agentVars, fsVars, ctxDone, sessionBytes, configVars,
                   nappended, dirVars, retryVars, links, commandHistory, ran, startup, progress, cwd, saveVars>>

\* a step of a goroutine that calls GetLast
HistoryReader ==
    /\ \E r \in HistoryReaders :
         HistCall(r) \/ HistRLock(r) \/ HistRead(r) \/ HistRUnlock(r) \/ HistDeref(r)
    /\ UNCHANGED <<approvalVars, agentVars, fsVars, ctxDone, sessionBytes, configVars,
                   nappended, dirVars, retryVars, links, commandHistory, ran, startup, progress, cwd, saveVars>>

NextHistory == HistoryWriter \/ HistoryReader

SpecHistory == Init /\ [][NextHistory]_vars

\* ------------------------------------------------------------------------
\* Start of the process: flags, environment, configuration (cmd/wink/main.go)
\* ------------------------------------------------------------------------
\* the default of --model
defaultModel == "qwen3:8b"

\* the default of --timeout
defaultTimeout == 30

\* the least timeout run accepts
minTimeout == 5

\* command lines: a flag is absent (<< >>) or given with a value
CommandLines ==
    [model : {<< >>, <<"m1">>, <<defaultModel>>},
     timeout : {<< >>, <<defaultTimeout>>, <<60>>, <<4>>, <<5>>}]

\* environments: an unset variable reads as the empty string
Environments ==
    [WINK_MODEL : {"", "m2"},
     WINK_TIMEOUT : {<< >>, <<"4", "5">>, <<"3">>, <<"a">>}]

\* the flag variables after cobra has parsed the command line
ParsedFlags(args) ==
    [modelFlag |-> IF args.model = << >> THEN defaultModel ELSE args.model[1],
     timeoutFlag |-> IF args.timeout = << >> THEN defaultTimeout ELSE args.timeout[1]]

\* the digits s begins with
RECURSIVE LeadingDigits(_)
LeadingDigits(s) ==
    IF s = << >> \/ ~(\E n \in 1..10 : Digits[n] = Head(s)) THEN << >>
    ELSE <<Head(s)>> \o LeadingDigits(Tail(s))

\* fmt.Sscanf(s, "%d", &timeout)
ScanInt(s) ==
    IF LeadingDigits(s) = << >> THEN [ok |-> FALSE, value |-> 0]
    ELSE [ok |-> TRUE, value |-> ParseNumber(LeadingDigits(s), 0)]

\* run: the model given to NewAgent
EffectiveModel(flags, env) ==
    IF env.WINK_MODEL # "" THEN env.WINK_MODEL ELSE flags.modelFlag

\* run: timeoutSeconds before it is validated
EffectiveTimeout(flags, env) ==
    IF env.WINK_TIMEOUT # << >> /\ flags.timeoutFlag = defaultTimeout
       /\ ScanInt(env.WINK_TIMEOUT).ok /\ ScanInt(env.WINK_TIMEOUT).value >= minTimeout
    THEN ScanInt(env.WINK_TIMEOUT).value
    ELSE flags.timeoutFlag

\* run, from the configuration to the call of NewAgent
Configured(args, env, flags) ==
    [done |-> TRUE, args |-> args, env |-> env,
     model |-> EffectiveModel(flags, env),
     timeout |-> EffectiveTimeout(flags, env),
     err |-> IF EffectiveTimeout(flags, env) < minTimeout
             THEN "timeout must be at least 5 seconds" ELSE ""]

\* the process is started with a command line and an environment
RunCommand ==
    /\ ~startup.done
    /\ \E args \in CommandLines, env \in Environments :
         startup' = Configured(args, env, ParsedFlags(args))
    /\ UNCHANGED <<approvalVars, agentVars, fsVars, ctxDone, sessionBytes, configVars,
                   nappended, dirVars, retryVars, links, commandHistory, ran, histVars, progress, cwd, saveVars>>

NextStartup == RunCommand

SpecStartup == Init /\ [][NextStartup]_vars

\* ------------------------------------------------------------------------
\* ProgressIndicator (internal/ui/progress.go): one goroutine calls Start,
\* Stop and Update in turn, every Start on a terminal leaves a spin goroutine
\* ------------------------------------------------------------------------
\* NewProgressIndicator: stderr is a terminal or not
ProgressNew ==
    /\ ~progress.made
    /\ \E isTTY \in BOOLEAN :
         progress' = [progress EXCEPT !.made = TRUE, !.isTTY = isTTY]

\* the caller is not inside a call and may make another
ProgressCallable ==
    /\ progress.made
    /\ progress.stop = "idle"
    /\ progress.calls < MaxProgressCalls

\* ProgressIndicator.Start
ProgressStart ==
    /\ ProgressCallable
    /\ progress' = IF ~progress.isTTY
                   THEN [progress EXCEPT !.printed = @ + 1, !.calls = @ + 1]
                   ELSE [progress EXCEPT !.spinners = @ + 1, !.calls = @ + 1]

\* ProgressIndicator.Stop up to the send on stopChan
ProgressStop ==
    /\ ProgressCallable
    /\ progress' = IF progress.done \/ ~progress.isTTY
                   THEN [progress EXCEPT !.calls = @ + 1]
                   ELSE [progress EXCEPT !.done = TRUE, !.stop = "sending",
                                         !.calls = @ + 1]

\* spin receives from stopChan and returns; Stop clears the line and returns
ProgressStopReceived ==
    /\ progress.stop = "sending"
    /\ progress.spinners > 0
    /\ progress' = [progress EXCEPT !.spinners = @ - 1, !.stop = "idle"]

\* spin draws a frame on a tick
ProgressTick ==
    /\ progress.spinners > 0
    /\ progress.frames < MaxFrames
    /\ progress' = [progress EXCEPT !.frames = @ + 1]

\* ProgressIndicator.Update
ProgressUpdate ==
    /\ ProgressCallable
    /\ progress' = IF ~progress.isTTY
                   THEN [progress EXCEPT !.printed = @ + 1, !.calls = @ + 1]
                   ELSE [progress EXCEPT !.message = "u", !.calls = @ + 1]

\* a step of the indicator leaves the rest of the program alone
ProgressOnly ==
    UNCHANGED <<approvalVars, agentVars, fsVars, ctxDone, sessionBytes, configVars,
                nappended, dirVars, retryVars, links, commandHistory, ran, histVars,
                startup, cwd, saveVars>>

NextProgress ==
    \/ ProgressNew /\ ProgressOnly
    \/ ProgressStart /\ ProgressOnly
    \/ ProgressStop /\ ProgressOnly
    \/ ProgressStopReceived /\ ProgressOnly
    \/ ProgressTick /\ ProgressOnly
    \/ ProgressUpdate /\ ProgressOnly

\* a spin goroutine that can receive from stopChan does not wait forever
SpecProgress ==
    Init /\ [][NextProgress]_vars /\ WF_vars(ProgressStopReceived /\ ProgressOnly)

\* ------------------------------------------------------------------------
\* The agent with a model whose responses propose many tool calls
\* ------------------------------------------------------------------------
LongTurnResponses ==
    PlainResponses \cup
    CallResponses({<<"read_file", MarshalParams([path |-> Str(<<"f">>)])>>},
                  nproposed, MaxLongTurnCalls)

LLMTurnLong == LLMTurnOf(LongTurnResponses)

HandleCallLong == HandleCallOf({"y"}, {TRUE})

NextLongTurn == StartRun \/ LLMTurnLong \/ HandleCallLong \/ SaveIteration \/ Finish

SpecLongTurn == Init /\ [][NextLongTurn]_vars

\* ------------------------------------------------------------------------
\* ApprovalManager.Save on the whole config document, in two processes of
\* the program that share config.json
\* ------------------------------------------------------------------------
SavingProcesses == {"A", "B"}

\* the fields of types.Config other than the rules, in the order of the struct:
\* config_version, default_model, ollama_base_url, api_timeout_seconds,
\* max_session_messages, output_format
DefaultSettings == <<"1.0", "qwen3:8b", "http://localhost:11434", 30, 100, "human">>

\* the fields of a Config that nothing was decoded into
ZeroSettings == <<"", "", "", 0, 0, "">>

\* settings a user has put in config.json: every field the default or not
UserSettings ==
    { <<v, m, u, t, c, f>> :
        v \in {"1.0"}, m \in {"qwen3:8b", "m1"},
        u \in {"http://localhost:11434", "http://h"}, t \in {30, 60},
        c \in {100, 20}, f \in {"human", "json"} }

\* the program is installed: there is no config.json yet, or one with the
\* user's settings and a rule
InstallConfig ==
    /\ ~cfgFile.installed
    /\ \/ cfgFile' = [cfgFile EXCEPT !.installed = TRUE]
       \/ \E st \in UserSettings :
            cfgFile' = [cfgFile EXCEPT !.installed = TRUE, !.present = TRUE,
                                       !.orig = [settings |-> st, rules |-> <<"r">>],
                                       !.doc = [settings |-> st, rules |-> <<"r">>]]
    /\ UNCHANGED savers

\* Save: the Config after os.ReadFile and json.Unmarshal, whose error is
\* dropped: the defaults if the file cannot be read, nothing decoded if the
\* document is empty or cut short
SaveReadConfig(file) ==
    IF ~file.present THEN [settings |-> DefaultSettings, rules |-> << >>]
    ELSE IF file.bytes # "all" THEN [settings |-> ZeroSettings, rules |-> << >>]
    ELSE file.doc

\* Save up to json.MarshalIndent: read the config, put in the rules of the process
SaveRead(p) ==
    /\ cfgFile.installed
    /\ savers[p].pc = "idle"
    /\ savers' = [savers EXCEPT
          ![p].pc = "read",
          ![p].config = [SaveReadConfig(cfgFile) EXCEPT !.rules = <<p>>]]
    /\ UNCHANGED cfgFile

\* Save: os.WriteFile opens config.json with O_CREATE and O_TRUNC
SaveTruncate(p) ==
    /\ savers[p].pc = "read"
    /\ cfgFile' = [cfgFile EXCEPT !.present = TRUE, !.bytes = "none"]
    /\ savers' = [savers EXCEPT ![p].pc = "opened"]

\* Save: os.WriteFile writes the document and closes the file
SaveWrite(p) ==
    /\ savers[p].pc = "opened"
    /\ cfgFile' = [cfgFile EXCEPT !.doc = savers[p].config, !.bytes = "all"]
    /\ savers' = [savers EXCEPT ![p].pc = "saved"]

\* the steps of the processes leave the rest alone
SaveOnly ==
    UNCHANGED <<approvalVars, agentVars, fsVars, ctxDone, sessionBytes, configVars,
                nappended, dirVars, retryVars, links, commandHistory, ran, histVars,
                startup, progress, cwd>>

NextSave ==
    \/ InstallConfig /\ SaveOnly
    \/ \E p \in SavingProcesses : SaveRead(p) /\ SaveOnly
    \/ \E p \in SavingProcesses : SaveTruncate(p) /\ SaveOnly
    \/ \E p \in SavingProcesses : SaveWrite(p) /\ SaveOnly

SpecSave == Init /\ [][NextSave]_vars

\* ------------------------------------------------------------------------
\* Claims about the approval engine (checked under SpecApproval)
\* ------------------------------------------------------------------------
\* a step that is a CheckApproval call
IsCheckStep == nchecks' = nchecks + 1

\* the rules of rs that apply to the call (tool name equal, pattern matches)
MatchingRules(rs, toolName, json) ==
    { i \in DOMAIN rs : rs[i].ToolName = toolName
                        /\ RegexMatchString(rs[i].ParamPattern, json) }

\* C3: whenever the approval check reports a call as auto-approved, some rule
\* has the call's tool name and a pattern matching the canonical JSON of the
\* call's parameters, and its use count is strictly greater after the call.
C3_AutoApprovedByMatchingRule ==
    [][ (IsCheckStep /\ last'.auto) =>
          \E i \in DOMAIN rules :
             /\ rules[i].ToolName = last'.tool
             /\ RegexMatchString(rules[i].ParamPattern, last'.json)
             /\ i \in DOMAIN rules'
             /\ rules'[i].UseCount > rules[i].UseCount ]_vars

\* a call has been auto-approved by a rule
C3_Witness == last.auto /\ last.rule # 0

\* C4: a rule synthesized by answering always to a call with parameters P
\* auto-approves only calls whose canonical parameter JSON is that of P.
C4_SynthesizedRuleMatchesOnlyExactParams ==
    (last.auto /\ last.desc.prefix = "Auto-approve") => last.desc.params = last.json

\* C5: after the user answers always to a call, the next approval check for
\* the same tool with the same parameters is auto-approved, in the same
\* process or in a later invocation.
C5_AlwaysThenRecallIsAuto ==
    [][ (IsCheckStep /\ last.response = "always"
         /\ last'.tool = last.tool /\ last'.json = last.json) => last'.auto ]_vars

IsHandleStep == pc = "call" /\ idx' = idx + 1

\* the events logged by the step
NewEvents == SubSeq(events', Len(events) + 1, Len(events'))

\* C1: the tool's Execute is invoked for a call only after the approval check
\* of that same call returned approved (a rule matched, or the user answered
\* yes or always); a call that was rejected, or whose approval check returned
\* an error, is never executed.
C1_ExecutedOnlyAfterApproval ==
    [][ IsHandleStep =>
          /\ \A i \in DOMAIN NewEvents :
               NewEvents[i].kind = "exec" =>
                 /\ i > 1
                 /\ NewEvents[i - 1].kind = "check"
                 /\ NewEvents[i - 1].id = NewEvents[i].id
                 /\ NewEvents[i].id = pending[idx].ID
                 /\ NewEvents[i - 1].approved /\ ~NewEvents[i - 1].err
                 /\ last'.approved /\ ~last'.err
                 /\ last'.auto \/ last'.response \in {"yes", "always"}
          /\ \A i \in DOMAIN events' :
               (events'[i].kind = "check" /\ (~events'[i].approved \/ events'[i].err)) =>
                 \A j \in DOMAIN events' :
                    ~(events'[j].kind = "exec" /\ events'[j].id = events'[i].id) ]_vars

\* one call has been executed after approval, another was refused
C1_Witness ==
    /\ \E i \in DOMAIN events : events[i].kind = "exec"
    /\ \E i \in DOMAIN events : events[i].kind = "check" /\ ~events[i].approved

\* C7: Run makes at most MaxIterations ChatCompletion requests and appends
\* at most MaxIterations assistant messages, and leaves the loop once the
\* loop variable reaches MaxIterations, whatever the model answers.
C7_AtMostMaxIterationsTurns ==
    /\ llmCalls <= MaxIterations
    /\ Cardinality({i \in DOMAIN session.Messages :
                      session.Messages[i].Role = "assistant"}) <= MaxIterations
    /\ iteration <= MaxIterations
    /\ iteration = MaxIterations => pc \in {"finish", "done"}

\* the model proposed a tool call on each of MaxIterations turns and Run returned
C7_Witness ==
    /\ llmCalls = MaxIterations
    /\ nproposed = MaxIterations
    /\ pc = "done"

\* the events of the current turn
TurnEvents == SubSeq(events, turnStart + 1, Len(events))

\* the call ids of the events of the given kind in the current turn, in order
TurnIds(kind) ==
    LET OfKind(e) == e.kind = kind
        sel == SelectSeq(TurnEvents, OfKind)
    IN [i \in DOMAIN sel |-> sel[i].id]

ProposedIds == [i \in DOMAIN proposed |-> proposed[i].ID]

KindRank(kind) ==
    CASE kind = "check" -> 1 [] kind = "exec" -> 2 [] kind = "result" -> 3
      [] kind = "message" -> 4

\* C8: the calls c1..cn proposed in a turn are handled one after the other in
\* the proposed order, and once the turn's calls are handled exactly one tool
\* result and one tool message carrying the id of ci exist for each ci, in
\* that order.
C8_OneResultPerProposedCallInOrder ==
    /\ \A i, j \in DOMAIN TurnEvents :
         i < j => \/ TurnEvents[i].id < TurnEvents[j].id
                  \/ /\ TurnEvents[i].id = TurnEvents[j].id
                     /\ KindRank(TurnEvents[i].kind) < KindRank(TurnEvents[j].kind)
    /\ pc # "call" => /\ TurnIds("result") = ProposedIds
                      /\ TurnIds("message") = ProposedIds

\* C9: a proposed call whose arguments are not valid JSON is recorded as a
\* ToolResult with success=false and fed back as a tool message for that
\* call, and the loop goes on to the next turn.
C9_MalformedCallRecordedAsFailure ==
    pc # "call" =>
      \A i \in DOMAIN proposed :
         ~Unmarshal(proposed[i].Arguments).ok =>
           /\ \E k \in DOMAIN session.ToolResults :
                /\ session.ToolResults[k].ToolCallID = proposed[i].ID
                /\ ~session.ToolResults[k].Success
           /\ \E k \in DOMAIN session.Messages :
                /\ session.Messages[k].Role = "tool"
                /\ session.Messages[k].tool_call_id = proposed[i].ID
           /\ pc \in {"finish", "done"} => iteration = MaxIterations

\* C10: when the user rejects a call, a ToolResult with success=false and
\* error 'Operation rejected by user' is recorded for it, nothing is
\* executed, the loop goes on with the remaining calls of the turn and then
\* with the next turn, and Run returns no error.
C10_RejectionIsRecordedAndLoopContinues ==
    [][ /\ (IsHandleStep /\ ~last'.approved /\ ~last'.err) =>
             /\ Len(session'.ToolResults) = Len(session.ToolResults) + 1
             /\ LET r == session'.ToolResults[Len(session'.ToolResults)]
                IN /\ r.ToolCallID = pending[idx].ID
                   /\ ~r.Success
                   /\ r.Error = Err(RejectedMessage, << >>, << >>)
             /\ fs' = fs
             /\ runErr' = ""
             /\ pending' = pending
             /\ pc' = IF idx < Len(pending) THEN "call" ELSE "save"
        /\ pc = "save" =>
             /\ runErr' = ""
             /\ pc' = IF iteration + 1 < MaxIterations THEN "llm" ELSE "finish"
        /\ pc = "finish" => (pc' = "done" /\ runErr' = "") ]_vars

\* a call was rejected, a later call of the turn was handled, a further
\* request was made to the model, and Run returned nil
C10_Witness ==
    /\ pc = "done"
    /\ runErr = ""
    /\ llmCalls >= 2
    /\ \E i \in DOMAIN session.ToolResults :
         /\ session.ToolResults[i].Error = Err(RejectedMessage, << >>, << >>)
         /\ i < Len(session.ToolResults)

\* the result and the tool message appended by a step that handles a call
LastResult == session'.ToolResults[Len(session'.ToolResults)]
LastMessage == session'.Messages[Len(session'.Messages)]

\* C11: a tool call that fails validation or execution does not abort the
\* loop: a ToolResult with success=false carrying the error is recorded for
\* it, Run goes on, and the tool message appended for the call carries the
\* error text (its content is not empty).
C11_FailureFedBackToModel ==
    [][ (IsHandleStep /\ last'.approved /\ ~last'.err /\ ~LastResult.Success) =>
          /\ LastResult.ToolCallID = pending[idx].ID
          /\ LastResult.Error # NoErr
          /\ runErr' = ""
          /\ pc' = IF idx < Len(pending) THEN "call" ELSE "save"
          /\ LastMessage.Role = "tool"
          /\ LastMessage.tool_call_id = pending[idx].ID
          /\ LastMessage.Content # << >> ]_vars

\* C12: on every exit from the loop (no tool calls, iteration cap, LLM
\* failure) the session is marked completed and, unless a write of the
\* session file failed, the file holds the completed session when Run returns.
C12_EveryExitMarksCompletedAndSaves ==
    (pc \in {"done", "error"} /\ llmCalls > 0) =>
        /\ session.Status = "completed"
        /\ nfail = 0 => sessionFile = session

\* C13: when the context is cancelled during a run, Run returns with the
\* session marked paused, in memory and in the session file.
C13_CancelledRunIsPersistedPaused ==
    (ctxDone /\ pc \in {"done", "error"}) =>
        /\ session.Status = "paused"
        /\ sessionFile.Status = "paused"

\* s is a prefix of t
IsPrefix(s, t) == Len(s) <= Len(t) /\ SubSeq(t, 1, Len(s)) = s

\* the session file lags the session by at most the current round: the
\* prompt of a first iteration, the assistant message, and the results and
\* messages of the calls handled so far
LagsByCurrentRound ==
    /\ IsPrefix(sessionFile.Messages, session.Messages)
    /\ IsPrefix(sessionFile.ToolResults, session.ToolResults)
    /\ Len(session.Messages) - Len(sessionFile.Messages)
          <= (IF iteration = 0 THEN 1 ELSE 0) + 1 + Len(pending)
    /\ Len(session.ToolResults) - Len(sessionFile.ToolResults) <= Len(pending)

\* C14: the session is saved at the end of every iteration: the save writes
\* the whole session (unless the write fails, which is logged), so that, as
\* long as no write has failed, at every iteration boundary the file holds
\* all messages and tool results appended so far, and at every point of the
\* run, and after a crash at any point, the file is a whole document that
\* lacks at most the messages of the unfinished round.
C14_CrashLosesAtMostUnfinishedRound ==
    [][ /\ (pc = "save" /\ pc' # "crashed") =>
              /\ pc' \in {"llm", "finish"} /\ iteration' = iteration + 1
              /\ sessionFile' = session \/ nfail' = nfail + 1
        /\ (nfail' = 0 /\ pc' = "llm" /\ iteration' > 0) => sessionFile' = session'
        /\ (nfail' = 0 /\ pc' \in {"llm", "call", "save", "finish", "crashed"}) =>
              (sessionBytes' = "all" /\ LagsByCurrentRound') ]_vars

\* C15: whenever the process is killed, also in the middle of a save, the
\* session file holds a whole document: entirely the new content or
\* entirely the prior content, never a partial or empty one.
C15_SessionFileNeverTorn ==
    pc = "crashed" => sessionBytes = "all"

\* C16: a process that loads config.json while another process is saving
\* it gets a complete document, the previous one or the new one: its Load
\* never fails on a partial or empty file.
C16_LoadSeesWholeConfig ==
    observed.done => observed.err = ""

\* C17: after every append the session holds at most maxMessages messages,
\* and after k appends it holds exactly the last min(k, maxMessages)
\* appended messages, in the order in which they were appended.
C17_TailKeepWithinCap ==
    /\ Len(session.Messages) <= maxMessages
    /\ Len(session.Messages) = IF nappended < maxMessages THEN nappended ELSE maxMessages
    /\ \A i \in DOMAIN session.Messages :
          session.Messages[i].tool_call_id = nappended - Len(session.Messages) + i

\* more than maxMessages messages were appended and the oldest were dropped
C17_Witness ==
    /\ nappended = maxMessages + 3
    /\ Len(session.Messages) = maxMessages
    /\ session.Messages[1].tool_call_id = 4
    /\ session.Messages[maxMessages].tool_call_id = maxMessages + 3

\* a file of the directory than which none was saved more recently
MostRecentlySaved(file) ==
    /\ \E i \in DOMAIN sessionsDir : sessionsDir[i] = file
    /\ \A i \in DOMAIN sessionsDir : ModTime(sessionsDir[i]) <= ModTime(file)

\* C18: when Run is invoked with continue and a session file exists, the
\* context it is about to send to the model consists of the messages of the
\* most recently saved session file, in their order and cut to the message
\* cap, followed by the new user prompt.
C18_ContinueStartsFromLatestSession ==
    [][ (pc \in {"idle", "done", "error"} /\ pc' = "llm" /\ continueSession') =>
          \E file \in 1..Len(archive) :
             /\ MostRecentlySaved(file)
             /\ session'.Messages =
                   PruneMessages(FileDoc(file).Messages
                                    \o <<Message("user", <<"next">>, << >>, 0)>>)
             /\ Len(session'.Messages) <= maxMessages ]_vars

\* a run continues the newer of two sessions, whose file is listed first
\* and holds a prompt and a reply
C18_Witness ==
    /\ continueSession
    /\ pc = "llm"
    /\ sessionsDir = <<2, 1>>
    /\ curFile = 2
    /\ Len(sessionFile.Messages) >= 2
    /\ Len(session.Messages) = Len(sessionFile.Messages) + 1
    /\ session.Messages[Len(session.Messages)].Content = <<"next">>

\* C20: WithRetry invokes the operation at most 1 + MaxRetries times (4 with
\* the default configuration); only the last invocation can have succeeded,
\* and then WithRetry returns nil; it returns "max retries exceeded" only
\* after invocation 1 + MaxRetries has failed, wrapping the error of that
\* invocation.
C20_RetryAtMostMaxRetriesPlusOne ==
    /\ Len(outcomes) <= 1 + rcfg.MaxRetries
    /\ rcfg = DefaultRetryConfig => Len(outcomes) <= 4
    /\ \A i \in DOMAIN outcomes : outcomes[i] => i = Len(outcomes)
    /\ (outcomes # << >> /\ outcomes[Len(outcomes)]) =>
          (rpc = "returned" /\ retryRet = Return("nil", 0))
    /\ retryRet.kind = "nil" => (outcomes # << >> /\ outcomes[Len(outcomes)])
    /\ retryRet.kind = "exceeded" =>
          /\ Len(outcomes) = 1 + rcfg.MaxRetries
          /\ \A i \in DOMAIN outcomes : ~outcomes[i]
          /\ retryRet.wraps = Len(outcomes)
    /\ retryRet.kind = "cancelled" => (ctxDone /\ retryRet.wraps = 0)

\* with the default configuration the fourth invocation failed and WithRetry
\* returned the error wrapping its failure
C20_Witness ==
    /\ rcfg = DefaultRetryConfig
    /\ rpc = "returned"
    /\ Len(outcomes) = 4
    /\ retryRet = Return("exceeded", 4)
    /\ backoff = 8

\* C21: when the context is cancelled while WithRetry waits between two
\* attempts and the backoff has not elapsed, every step from there leaves the
\* backoff unelapsed and the operation uninvoked, and the only step of
\* WithRetry is its return of the cancellation error.
C21_CancelledWaitReturnsWithoutInvoking ==
    [][(rpc = "wait" /\ ctxDone /\ ~timerFired) =>
         /\ outcomes' = outcomes
         /\ timerFired' = timerFired
         /\ \/ rpc' = "wait"
            \/ rpc' = "returned" /\ retryRet' = Return("cancelled", 0)]_vars

\* WithRetry has returned the cancellation error from a wait whose backoff had
\* not elapsed, after one failed invocation
C21_Witness ==
    /\ rpc = "returned"
    /\ retryRet = Return("cancelled", 0)
    /\ ~timerFired
    /\ outcomes = <<FALSE>>

\* C27: when the read of the answer to the approval prompt fails (no input
\* stream, end of input), the call is not executed: the registry is not
\* invoked, the file system is untouched and a failed result is recorded for
\* the call.
C27_ReadFailureCountsAsNo ==
    [][(IsHandleStep /\ last'.readFailed) =>
         /\ \A i \in DOMAIN NewEvents : NewEvents[i].kind # "exec"
         /\ fs' = fs
         /\ accessed' = accessed
         /\ LastResult.ToolCallID = pending[idx].ID
         /\ ~LastResult.Success]_vars

\* the prompt for a call could not read an answer, the failed result was
\* recorded for it and Run went on
C27_Witness ==
    /\ last.readFailed
    /\ pc \in {"call", "save"}
    /\ session.ToolResults # << >>
    /\ session.ToolResults[Len(session.ToolResults)].Error.msg = "approval check failed"
    /\ fs = InitialFS

\* C19: Run is aborted with "LLM request failed" only after the failed
\* request of the turn has been retried, so the turn made more than one
\* ChatCompletion request.
C19_LLMFailureRetriedBeforeAbort ==
    (pc = "error" /\ runErr = "LLM request failed") => llmCalls > iteration + 1

\* ------------------------------------------------------------------------
\* Claims about the path guard (checked under SpecPath)
\* ------------------------------------------------------------------------
\* a step that is a direct Registry.Execute call
IsExecStep == nexecs' = nexecs + 1

\* the path, with '.' and '..' collapsed, is the session root or below it
InsideRoot(p) ==
    \/ Clean(p) = WorkingDir
    \/ HasPrefix(Clean(p), WorkingDir \o <<SEP>>)

\* the call is to a file tool and gives it a path
HasPathParam(e) ==
    /\ e.tool \in RegisteredTools
    /\ e.tool \in {"list_dir", "file_search"}
       \/ (IsString(e.params, "path") /\ e.params["path"].v # << >>)

\* the path parameter of the call
PathParam(e) ==
    IF e.tool = "file_search"
    THEN IF IsString(e.params, "base_path") /\ e.params["base_path"].v # << >>
         THEN e.params["base_path"].v ELSE <<".">>
    ELSE IF IsString(e.params, "path") /\ e.params["path"].v # << >>
         THEN e.params["path"].v ELSE <<".">>

\* the path parameter joined with the session root
Target(e) ==
    IF e.tool # "file_search" /\ IsAbs(PathParam(e)) THEN PathParam(e)
    ELSE WorkingDir \o <<SEP>> \o PathParam(e)

\* the required parameters other than the path are given and well typed
OtherParamsWellFormed(e) ==
    CASE e.tool = "create_file" -> IsString(e.params, "content")
      [] e.tool = "replace_string_in_file" ->
           /\ IsString(e.params, "old_string") /\ e.params["old_string"].v # << >>
           /\ IsString(e.params, "new_string")
      [] e.tool = "file_search" ->
           IsString(e.params, "pattern") /\ e.params["pattern"].v # << >>
      [] OTHER -> TRUE

\* what holds of every call through the registry: an executed call has its
\* path and every path it accesses inside the root; a call whose path
\* resolves outside the root fails without executing or accessing the file
\* system
GuardHolds(e) ==
    /\ \A a \in e.access : InsideRoot(a)
    /\ (HasPathParam(e) /\ e.executed) => InsideRoot(Target(e))
    /\ (HasPathParam(e) /\ ~InsideRoot(Target(e))) =>
         /\ ~e.executed
         /\ e.err # NoErr
         /\ e.access = {}

C22_ExecuteOnlyAfterValidate ==
    [][IsExecStep /\ lastExec'.tool \in RegisteredTools =>
         /\ lastExec'.validated
         /\ lastExec'.executed <=>
              ToolValidate(lastExec'.tool, lastExec'.params, WorkingDir, fs).err = NoErr
         /\ ~lastExec'.executed => lastExec'.err # NoErr /\ fs' = fs]_vars

\* a call whose validation failed and that was not executed, after a call
\* that was validated and executed and changed the file system
C22_Witness ==
    /\ nexecs = 2
    /\ fs # InitialFS
    /\ lastExec.validated
    /\ ~lastExec.executed
    /\ lastExec.err # NoErr

\* C23: when a call through the registry is rejected by the path guard, the
\* error names the path as the caller gave it and holds no resolved absolute
\* path other than that.
C23_RejectionEchoesUserPathOnly ==
    lastExec.err.msg = "is outside working directory" =>
        /\ lastExec.err.path = PathParam(lastExec)
        /\ lastExec.err.resolved \in {<< >>, PathParam(lastExec)}

\* C24: a call of a file tool whose path is textually inside the working
\* directory but passes through a symbolic link to a target outside it is
\* rejected by the path guard and not executed.
C24_SymlinkEscapeRejected ==
    [][(/\ IsExecStep
        /\ InsideRoot(Target(lastExec'))
        /\ ~InsideRoot(Follow(links, Clean(Target(lastExec'))))) =>
          /\ ~lastExec'.executed
          /\ lastExec'.err.msg = "is outside working directory"]_vars

\* the pattern matches the serialization of every parameter map
BlanketPattern(p) ==
    \A call \in ApprovalCalls : RegexMatchString(p, MarshalParams(call[2]))

\* C25: no rule whose pattern matches every parameter serialization is ever
\* in the rule store or in the config file: AddRule refuses to create it.
C25_NoBlanketRuleCreated ==
    /\ \A i \in DOMAIN rules : ~BlanketPattern(rules[i].ParamPattern)
    /\ \A i \in DOMAIN diskRules : ~BlanketPattern(diskRules[i].ParamPattern)

\* C26: a CheckApproval call for a tool that does not require approval
\* returns approved, not auto-approved, with no rule description and no
\* error, without prompting and leaving the rule store and the config file
\* as they were.
C26_NoApprovalNeededReturnsAtOnce ==
    [][(nchecks' = nchecks + 1 /\ ~RequiresApproval(last'.tool)) =>
         /\ last'.approved /\ ~last'.auto /\ last'.desc = "" /\ ~last'.err
         /\ last'.response = ""
         /\ rules' = rules
         /\ diskRules' = diskRules]_vars

\* C28: every ToolResult recorded in the session has an error text exactly
\* when its success flag is false.
C28_ErrorTextIffNotSuccess ==
    \A i \in DOMAIN session.ToolResults :
        (session.ToolResults[i].Error # NoErr) <=> ~session.ToolResults[i].Success

\* C29: a message of the session has empty content only if it carries tool
\* calls: no tool message, no user message and no assistant message without
\* tool calls is empty.
C29_EmptyContentOnlyWithToolCalls ==
    \A i \in DOMAIN session.Messages :
        session.Messages[i].Content = << >> => session.Messages[i].ToolCalls # << >>

\* the step handles a call of terminal_last_command whose Execute is invoked
IsLastCommandStep ==
    /\ IsHandleStep
    /\ pending[idx].ToolName = "terminal_last_command"
    /\ \E i \in DOMAIN NewEvents : NewEvents[i].kind = "exec"

IsTimedOutStep ==
    /\ IsHandleStep
    /\ pending[idx].ToolName = "run_in_terminal"
    /\ LastResult.Error.msg = "command timed out"

\* C31: a run_in_terminal call that exceeds its timeout appends an entry for
\* the attempted command to the command history, so that GetLast then
\* returns that command.
C31_TimedOutCommandRecorded ==
    [][IsTimedOutStep =>
         /\ Len(commandHistory') = Len(commandHistory) + 1
         /\ GetLast(commandHistory')[1].Command =
               TrimSpace(pending[idx].Parameters["command"].v)]_vars

\* C32: with AddCommand and GetLast called from several goroutines, the command
\* of every AddCommand call that has returned is an element of the history,
\* which holds one element for each append made;
\* GetLast returns nil only if no AddCommand call had returned when it was
\* called, and otherwise a pointer through which its caller reads a complete
\* entry, the one that was the last element while GetLast held the lock,
\* whatever was appended since.
C32_HistorySerialized ==
    /\ \A k \in 1..Len(histDone) :
          \E j \in 1..histSlice.len : histMem[histSlice.arr][j] = histDone[k]
    /\ histSlice.len = Len(histDone) + Cardinality({w \in HistoryWriters : histProc[w].pc = "assigned"})
    /\ \A k \in 1..Len(histObs) :
          IF histObs[k].nil THEN histObs[k].start = 0
          ELSE /\ histObs[k].value = histObs[k].tail
               /\ histObs[k].value # ZeroCommand

\* a caller of GetLast has read the entry after more commands were appended,
\* and all the AddCommand calls have returned
C32_Witness ==
    /\ Len(histDone) = 2 * MaxHistoryCalls
    /\ \E k \in 1..Len(histObs) : ~histObs[k].nil /\ histObs[k].idx < histObs[k].len

\* old occurs in s at index i and nowhere before it
FirstOccurrenceAt(s, old, i) ==
    /\ SubSeq(s, i, i + Len(old) - 1) = old
    /\ \A j \in 1..(i - 1) : SubSeq(s, j, j + Len(old) - 1) # old

\* after differs from before in the file p alone, where the first occurrence
\* of old has become new and every other byte is kept
OneRegionReplaced(before, after, p, old, new) ==
    /\ p \in DOMAIN before.files
    /\ after.dirs = before.dirs
    /\ DOMAIN after.files = DOMAIN before.files
    /\ \A q \in DOMAIN before.files \ {p} : after.files[q] = before.files[q]
    /\ \E i \in 1..Len(before.files[p]) :
          /\ FirstOccurrenceAt(before.files[p], old, i)
          /\ after.files[p] = SubSeq(before.files[p], 1, i - 1) \o new \o
                                SubSeq(before.files[p], i + Len(old), Len(before.files[p]))

\* a direct call of replace_string_in_file
IsReplaceStep == IsExecStep /\ lastExec'.tool = "replace_string_in_file"

IsCreateOverExistingStep ==
    /\ IsExecStep
    /\ lastExec'.tool = "create_file"
    /\ HasPathParam(lastExec')
    /\ Exists(fs, Clean(Target(lastExec')))

C35_FlagThenEnvironmentThenDefault ==
    startup.done =>
      /\ startup.model =
            IF startup.args.model # << >> THEN startup.args.model[1]
            ELSE IF startup.env.WINK_MODEL # "" THEN startup.env.WINK_MODEL
            ELSE defaultModel
      /\ startup.timeout =
            IF startup.args.timeout # << >> THEN startup.args.timeout[1]
            ELSE IF ScanInt(startup.env.WINK_TIMEOUT).ok
                    /\ ScanInt(startup.env.WINK_TIMEOUT).value >= minTimeout
            THEN ScanInt(startup.env.WINK_TIMEOUT).value
            ELSE defaultTimeout

\* C36: a call of Stop that has begun returns: Stop never waits forever,
\* whether Start was called before it or not and however often Stop was
\* called before.
C36_StopAlwaysReturns == (progress.stop = "sending") ~> (progress.stop = "idle")

\* the step handles an approved read_file call of a continued run
IsContinuedReadStep ==
    /\ IsHandleStep
    /\ continueSession
    /\ last'.approved /\ ~last'.err
    /\ pending[idx].ToolName = "read_file"

\* the session files keep their id and their root, and so does the session
\* of a run once the run has started
SessionIdentityKept ==
    /\ \A file \in 1..Len(archive) :
          /\ FileDoc(file)'.ID = FileDoc(file).ID
          /\ FileDoc(file)'.WorkingDir = FileDoc(file).WorkingDir
    /\ \A file \in 1..Len(archive') : FileDoc(file)'.ID = file
    /\ pc \in {"llm", "call", "save", "finish"} =>
          /\ session'.ID = session.ID
          /\ session'.WorkingDir = session.WorkingDir
    /\ pc' \in {"llm", "call", "save", "finish"} =>
          /\ session'.ID = curFile'
          /\ session'.WorkingDir = sessionFile'.WorkingDir

\* C37: in a continued run a tool call is resolved in the root stored in the
\* file of the session, whatever directory the run was started from: what it
\* accesses lies in that root, and a read succeeds exactly if the file is
\* there; no step changes the id or the root of a session or of its file.
C37_ContinuedRunKeepsSessionRoot ==
    [][/\ SessionIdentityKept
       /\ IsContinuedReadStep =>
            /\ accessed' \subseteq accessed \cup
                  {Join(FileDoc(curFile).WorkingDir, pending[idx].Parameters["path"].v)}
            /\ LastResult.Success =
                  (Join(FileDoc(curFile).WorkingDir, pending[idx].Parameters["path"].v)
                     \in DOMAIN fs.files)]_vars

\* a run continued from another directory has read the file of the session's root
C37_Witness ==
    /\ continueSession
    /\ cwd # session.WorkingDir
    /\ pc = "save"
    /\ Len(session.ToolResults) > 0
    /\ Len(session.Messages) > 0
    /\ session.ToolResults[Len(session.ToolResults)].Success
    /\ session.Messages[Len(session.Messages)].Role = "tool"

\* the message is a tool message whose call no assistant message before it
\* in the list proposed
IsOrphanToolMessage(messages, i) ==
    /\ messages[i].Role = "tool"
    /\ ~\E j \in 1..(i - 1) :
          /\ messages[j].Role = "assistant"
          /\ \E c \in 1..Len(messages[j].ToolCalls) :
                messages[j].ToolCalls[c].ID = messages[i].tool_call_id

\* C38: when the messages of the session are about to be sent to the model,
\* every tool message in them comes after an assistant message that proposed
\* the tool call with its id.
C38_ToolMessageFollowsItsAssistant ==
    pc = "llm" =>
      \A i \in 1..Len(session.Messages) : ~IsOrphanToolMessage(session.Messages, i)

\* a step in which AddRule was called, by the answer always or directly, and
\* its write of the config file failed
IsFailedAddStep ==
    /\ nfail' = nfail + 1
    /\ \/ nadded' = nadded + 1
       \/ IsCheckStep /\ last'.response = "always"

\* C39: when AddRule returns an error the rules in memory are what they were
\* before the call.
C39_FailedAddLeavesRulesUnchanged == [][IsFailedAddStep => rules' = rules]_vars

\* C40: whenever config.json holds a whole document after Save calls, the
\* fields other than the rules have the values the file held at first.
C40_SaveKeepsOtherFields ==
    (cfgFile.orig.settings # << >> /\ cfgFile.present /\ cfgFile.bytes = "all") =>
       cfgFile.doc.settings = cfgFile.orig.settings

====
